---- MODULE Spec2Model ----
(***************************************************************************)
(* DexPaprika plugin: the three families of endpoint operations and the    *)
(* action registry.                                                        *)
(*                                                                         *)
(*   "registry"  src/src/actions/index.ts      actions[*].execute          *)
(*   "module"    src/unnamed/part_001 (710-)   getNetworks .. getStats     *)
(*   "handler"   src/src/actions/*.ts, src/unnamed/part_000  GET_*.handler *)
(*                                                                         *)
(* An invocation is a coroutine: it runs up to its next await, suspends,   *)
(* and is resumed by the settlement of the awaited promise.  Every action  *)
(* below is one such run-to-suspension segment.                            *)
(***************************************************************************)
EXTENDS Integers, Sequences, FiniteSets, TLC

VARIABLES calls

vars == <<calls>>

(***************************************************************************)
(* JavaScript values, tagged by typeof.                                    *)
(***************************************************************************)
Undefined == [t |-> "undefined"]
Null == [t |-> "null"]
Str(s) == [t |-> "string", v |-> s]
Arr(a) == [t |-> "array", v |-> a]
Obj(o) == [t |-> "object", v |-> o]

\* ToBoolean on the tagged values used here
Truthy(x) ==
  CASE x.t = "undefined" -> FALSE
    [] x.t = "null" -> FALSE
    [] x.t = "string" -> x.v # ""
    [] OTHER -> TRUE

\* property read on a plain record: absent property reads as undefined
Has(o, f) == f \in DOMAIN o

\* x.f on a tagged value that is not undefined/null
IsNullish(x) == x.t \in {"undefined", "null"}
HasProp(x, f) == x.t = "object" /\ Has(x.v, f)

(***************************************************************************)
(* String primitives                                                       *)
(***************************************************************************)
IsWhite(c) == c = " "

RECURSIVE trimStart(_)
trimStart(s) ==
  IF Len(s) > 0 /\ IsWhite(SubSeq(s, 1, 1)) THEN trimStart(SubSeq(s, 2, Len(s))) ELSE s

RECURSIVE trimEnd(_)
trimEnd(s) ==
  IF Len(s) > 0 /\ IsWhite(SubSeq(s, Len(s), Len(s)))
  THEN trimEnd(SubSeq(s, 1, Len(s) - 1)) ELSE s

\* String.prototype.trim
trim(s) == trimEnd(trimStart(s))

\* String.prototype.includes
Includes(s, sub) ==
  \E i \in 1..(Len(s) - Len(sub) + 1) : SubSeq(s, i, i + Len(sub) - 1) = sub

Lower == "abcdefghijklmnopqrstuvwxyz"
Upper == "ABCDEFGHIJKLMNOPQRSTUVWXYZ"

\* String.prototype.toUpperCase on one character
toUpperCase(c) ==
  IF \E i \in 1..Len(Lower) : SubSeq(Lower, i, i) = c
  THEN LET i == CHOOSE j \in 1..Len(Lower) : SubSeq(Lower, j, j) = c
       IN SubSeq(Upper, i, i)
  ELSE c

\* s.charAt(0).toUpperCase() + s.slice(1)
capitalize(s) ==
  IF Len(s) = 0 THEN "" ELSE toUpperCase(SubSeq(s, 1, 1)) \o SubSeq(s, 2, Len(s))

\* encodeURIComponent over the characters that occur in queries
RECURSIVE encodeURIComponent(_)
encodeURIComponent(s) ==
  IF Len(s) = 0 THEN ""
  ELSE LET c == SubSeq(s, 1, 1)
       IN (IF c = " " THEN "%20" ELSE c) \o encodeURIComponent(SubSeq(s, 2, Len(s)))

(***************************************************************************)
(* Settings and configuration                                              *)
(***************************************************************************)
DefaultBaseUrl == "https://api.dexpaprika.com"

\* runtime.getSetting(key): the provider's stored value, null or undefined
getSetting(runtime, key) == runtime[key]

\* the configuration object built inline by every actions[*].execute
executeConfig(runtime) ==
  [DEXPAPRIKA_API_URL |->
     IF Truthy(getSetting(runtime, "DEXPAPRIKA_API_URL"))
     THEN getSetting(runtime, "DEXPAPRIKA_API_URL") ELSE Str(DefaultBaseUrl),
   DEXPAPRIKA_API_KEY |-> getSetting(runtime, "DEXPAPRIKA_API_KEY")]

\* config.ts getConfig(context): same shape, no validation
configGetConfig(context) ==
  [DEXPAPRIKA_API_URL |->
     IF Truthy(getSetting(context, "DEXPAPRIKA_API_URL"))
     THEN getSetting(context, "DEXPAPRIKA_API_URL") ELSE Str(DefaultBaseUrl),
   DEXPAPRIKA_API_KEY |-> getSetting(context, "DEXPAPRIKA_API_KEY")]

\* ConfigSchema.parse: z.string().optional() admits a string or undefined
ConfigSchemaAccepts(config) ==
  /\ config.DEXPAPRIKA_API_KEY.t \in {"string", "undefined"}
  /\ config.DEXPAPRIKA_API_URL.t = "string"

\* environment.ts getConfig(runtime): returns the config or throws
getConfig(runtime) ==
  LET config == [DEXPAPRIKA_API_KEY |-> getSetting(runtime, "DEXPAPRIKA_API_KEY"),
                 DEXPAPRIKA_API_URL |->
                   IF Truthy(getSetting(runtime, "DEXPAPRIKA_API_URL"))
                   THEN getSetting(runtime, "DEXPAPRIKA_API_URL")
                   ELSE Str(DefaultBaseUrl)]
  IN IF ConfigSchemaAccepts(config)
     THEN [ok |-> TRUE, config |-> config]
     ELSE [ok |-> FALSE,
           message |-> "DexPaprika plugin configuration error: Expected string, received "
                        \o config.DEXPAPRIKA_API_KEY.t]

(***************************************************************************)
(* Transport client                                                        *)
(***************************************************************************)
NoFields == [k \in {} |-> 0]

\* createApiClient(baseURL, apiKey): one interceptor iff apiKey is truthy
\* one axios instance for every invocation instead of axios.create per call:
\* the interceptors registered by the other invocations stay on it
createApiClient_sharedInstance(baseURL, apiKey) ==
  LET registered ==
        UNION {{calls[i].clients[k].interceptors[n] :
                  n \in DOMAIN calls[i].clients[k].interceptors} :
               i \in {j \in DOMAIN calls : calls[j].pc # "idle"},
               k \in {1}}
      earlier == CHOOSE seq \in [1..Cardinality(registered) -> registered] :
                   \A a, b \in DOMAIN seq : a # b => seq[a] # seq[b]
  IN [baseURL |-> baseURL.v,
      interceptors |-> earlier \o (IF Truthy(apiKey) THEN <<apiKey.v>> ELSE <<>>)]

createApiClient(baseURL, apiKey) ==
  [baseURL |-> baseURL.v,
   interceptors |-> IF Truthy(apiKey) THEN <<apiKey.v>> ELSE <<>>]

\* the headers after the client's request interceptors have run
RECURSIVE runInterceptors(_, _)
runInterceptors(interceptors, headers) ==
  IF interceptors = <<>> THEN headers
  ELSE runInterceptors(Tail(interceptors),
                       [k \in (DOMAIN headers) \cup {"Authorization"} |->
                          IF k = "Authorization" THEN "Bearer " \o Head(interceptors)
                          ELSE headers[k]])

\* client.get(url, {params})
clientGet(client, url, params) ==
  [via |-> "client", method |-> "GET", baseURL |-> client.baseURL, url |-> url,
   params |-> params, headers |-> runInterceptors(client.interceptors, NoFields)]

\* axios.get(url) on the global instance: no base URL, no interceptor
axiosGet(url) ==
  [via |-> "axios", method |-> "GET", baseURL |-> "", url |-> url,
   params |-> NoFields, headers |-> NoFields]

(***************************************************************************)
(* Errors                                                                  *)
(***************************************************************************)
\* new Error(message), TypeError
Error(message) == [isAxiosError |-> FALSE, hasResponse |-> FALSE, message |-> message]

\* the AxiosError a settled request rejects with
AxiosError(settled) ==
  IF settled.kind = "http"
  THEN [isAxiosError |-> TRUE, hasResponse |-> TRUE, status |-> settled.status,
        data |-> settled.data,
        message |-> "Request failed with status code " \o ToString(settled.status)]
  ELSE [isAxiosError |-> TRUE, hasResponse |-> FALSE, message |-> settled.message]

\* `${error.response?.status}`
responseStatusText(error) ==
  IF error.hasResponse THEN ToString(error.status) ELSE "undefined"

\* error.response?.data?.error || error.message
responseErrorOrMessage(error) ==
  IF error.hasResponse /\ HasProp(error.data, "error") /\ error.data.v.error # ""
  THEN error.data.v.error ELSE error.message

\* reading a property of undefined or null
CannotRead(x, prop) ==
  Error("Cannot read properties of " \o x.t \o " (reading '" \o prop \o "')")

(***************************************************************************)
(* Reading the response body                                               *)
(***************************************************************************)
\* the own properties of a body; a primitive string has none of the ones read
Fields(data) == IF data.t = "object" THEN data.v ELSE NoFields

\* `${o.f}` for a string-valued property
Text(o, f) == IF Has(o, f) THEN o[f] ELSE "undefined"

\* `${token?.f}` for tokens[i] of a pool (i is 1-based here, 0-based in the source)
TokenText(pool, i, f) ==
  IF Has(pool, "tokens") /\ Len(pool.tokens) >= i THEN Text(pool.tokens[i], f)
  ELSE "undefined"

\* pool.tokens?.[i]?.symbol || fallback
SymbolOr(pool, i, fallback) ==
  IF Has(pool, "tokens") /\ Len(pool.tokens) >= i /\ Has(pool.tokens[i], "symbol")
     /\ pool.tokens[i].symbol # ""
  THEN pool.tokens[i].symbol ELSE fallback

\* Array.prototype.slice(0, n)
Slice(a, n) == SubSeq(a, 1, IF Len(a) < n THEN Len(a) ELSE n)

\* parameter destructuring with a default: `{ f = d } = params`
Default(params, f, d) == IF Has(params, f) THEN params[f] ELSE d

DefaultPage == 0
DefaultLimit == 10
DefaultOrderBy == "volume_usd"
DefaultSort == "desc"
DefaultInversed == FALSE

\* The numbers of a body that the formatting multiplies by 100 are carried
\* in ten-thousandths: the integer n stands for the number n / 10000, so
\* n is also (number * 100) counted in hundredths.
Abs(n) == IF n < 0 THEN -n ELSE n

\* Number.prototype.toFixed(2) of a number given in hundredths
toFixed2(hundredths) ==
  (IF hundredths < 0 THEN "-" ELSE "") \o ToString(Abs(hundredths) \div 100) \o "."
  \o (IF Abs(hundredths) % 100 < 10 THEN "0" ELSE "") \o ToString(Abs(hundredths) % 100)

\* the digits of a non-negative integer in groups of three, as en-US
\* Number.prototype.toLocaleString() writes it
RECURSIVE toLocaleString(_)
toLocaleString(n) ==
  IF n < 1000 THEN ToString(n)
  ELSE toLocaleString(n \div 1000) \o ","
       \o (IF n % 1000 < 100 THEN "0" ELSE "") \o (IF n % 1000 < 10 THEN "0" ELSE "")
       \o ToString(n % 1000)

\* `$${Number(o.f).toLocaleString()}`: Number(undefined) is NaN
usd(o, f) == IF Has(o, f) THEN "$" \o toLocaleString(o[f]) ELSE "$NaN"

\* o.f ? `$${Number(o.f).toLocaleString()}` : 'N/A'
usdOrNA(o, f) == IF Has(o, f) /\ o[f] # 0 THEN "$" \o toLocaleString(o[f]) ELSE "N/A"

\* typeof o.f === 'number' ? `$${o.f.toLocaleString('en-US', {minimumFractionDigits:
\* digits, maximumFractionDigits: digits})}` : 'N/A' (the bodies hold whole amounts)
usdFixed(o, f, digits) ==
  IF Has(o, f)
  THEN "$" \o toLocaleString(o[f]) \o "." \o SubSeq("000000", 1, digits)
  ELSE "N/A"

\* a field that holds a number or null (fee: number | null) carries a tagged
\* value; null * 100 is 0 and undefined * 100 is NaN
Number(n) == [t |-> "number", v |-> n]

\* `${x}` of the number x given in hundredths: no trailing zeros
numberText(hundredths) ==
  ToString(hundredths \div 100)
  \o (IF hundredths % 100 = 0 THEN ""
      ELSE IF hundredths % 10 = 0 THEN "." \o ToString((hundredths % 100) \div 10)
      ELSE "." \o (IF hundredths % 100 < 10 THEN "0" ELSE "") \o ToString(hundredths % 100))

\* `${(pool.fee * 100).toFixed(2)}%`
actions_fee(pool) ==
  IF ~Has(pool, "fee") THEN "NaN%"
  ELSE IF pool.fee.t = "null" THEN toFixed2(0) \o "%"
  ELSE toFixed2(pool.fee.v) \o "%"

\* pool.fee !== null ? `${pool.fee * 100}%` : 'N/A'
getPoolDetails_fee(pool) ==
  IF ~Has(pool, "fee") THEN "NaN%"
  ELSE IF pool.fee.t = "null" THEN "N/A"
  ELSE numberText(pool.fee.v) \o "%"

\* pool.fee ? `${(pool.fee * 100).toFixed(3)}%` : 'N/A'
GET_POOL_DETAILS_fee(pool) ==
  IF Has(pool, "fee") /\ pool.fee.t = "number" /\ pool.fee.v # 0
  THEN toFixed2(pool.fee.v) \o "0%" ELSE "N/A"

\* `${(o.f * 100).toFixed(2)}%`: undefined * 100 is NaN
percentOf(o, f) == IF Has(o, f) THEN toFixed2(o[f]) \o "%" ELSE "NaN%"

\* o.f ? `${(o.f * 100).toFixed(2)}%` : 'N/A'
percentOrNA(o, f) == IF Has(o, f) /\ o[f] # 0 THEN toFixed2(o[f]) \o "%" ELSE "N/A"

\* o.f ? `${o.f > 0 ? '+' : ''}${(o.f * 100).toFixed(2)}%` : 'N/A'
signedPercentOrNA(o, f) ==
  IF Has(o, f) /\ o[f] # 0
  THEN (IF o[f] > 0 THEN "+" ELSE "") \o toFixed2(o[f]) \o "%" ELSE "N/A"

\* String(n).padStart(width, '0')
RECURSIVE padStart(_, _)
padStart(text, width) == IF Len(text) >= width THEN text ELSE padStart("0" \o text, width)

\* Date.prototype.toISOString(): YYYY-MM-DDTHH:mm:ss.sssZ
toISOString(date) ==
  padStart(ToString(date.year), 4) \o "-" \o padStart(ToString(date.month), 2) \o "-"
  \o padStart(ToString(date.day), 2) \o "T" \o padStart(ToString(date.hours), 2) \o ":"
  \o padStart(ToString(date.minutes), 2) \o ":" \o padStart(ToString(date.seconds), 2)
  \o "." \o padStart(ToString(date.milliseconds), 3) \o "Z"

\* String.prototype.replace(pattern, replacement) for a one-character
\* pattern: the first occurrence only
RECURSIVE replace(_, _, _)
replace(text, pattern, replacement) ==
  IF text = "" THEN ""
  ELSE IF SubSeq(text, 1, 1) = pattern THEN replacement \o SubSeq(text, 2, Len(text))
  ELSE SubSeq(text, 1, 1) \o replace(SubSeq(text, 2, Len(text)), pattern, replacement)

\* String.prototype.substring(start, end), 0-based, end excluded
substring(text, start, end) ==
  SubSeq(text, start + 1, IF end < Len(text) THEN end ELSE Len(text))

\* new Date().toISOString().replace('T', ' at ').substring(0, 19)
timestamp(now) == substring(replace(toISOString(now), "T", " at "), 0, 19)

\* the envelope of an operation with the timestamp its formatting branch
\* computed: every formatted_response carries one, a body returned as it
\* came carries none
stamped(value, now) ==
  IF HasProp(value, "formatted_response")
  THEN Obj([f \in DOMAIN value.v |->
              IF f = "formatted_response"
              THEN value.v[f] @@ [timestamp |-> timestamp(now)]
              ELSE value.v[f]])
  ELSE value

\* the payload of a handler with the timestamp its try block computed:
\* GET_NETWORKS has none, GET_NETWORK_DEXES hands over the ISO string, SEARCH
\* repeats it in its formatted_response
handlerStamped(op, payload, now) ==
  CASE op = "getNetworks" -> payload
    [] op = "getNetworkDexes" ->
         [payload EXCEPT !.content = @ @@ [timestamp |-> toISOString(now)]]
    [] op = "search" ->
         [payload EXCEPT !.content =
            [f \in DOMAIN payload.content |->
               IF f = "formatted_response"
               THEN payload.content[f] @@ [timestamp |-> timestamp(now)]
               ELSE payload.content[f]] @@ [timestamp |-> timestamp(now)]]
    [] OTHER -> [payload EXCEPT !.content = @ @@ [timestamp |-> timestamp(now)]]

Resolve(value) == [ok |-> TRUE, value |-> value]
Throw(error) == [ok |-> FALSE, error |-> error]

(***************************************************************************)
(* The action registry of src/actions/index.ts                             *)
(***************************************************************************)
\* dexpaprikaPlugin.actions: name, description, parameters, execute for each
actions ==
  << [name |-> "getNetworks",
      description |-> "Get a list of all supported blockchain networks and their metadata",
      parameters |-> [type |-> "object", required |-> <<>>], execute |-> "function"],
     [name |-> "getNetworkDexes",
      description |-> "Get a list of available decentralized exchanges on a specific network",
      parameters |-> [type |-> "object", required |-> <<"network">>], execute |-> "function"],
     [name |-> "getTopPools",
      description |-> "Get a paginated list of top liquidity pools from all networks",
      parameters |-> [type |-> "object", required |-> <<>>], execute |-> "function"],
     [name |-> "getNetworkPools",
      description |-> "Get a list of top liquidity pools on a specific network",
      parameters |-> [type |-> "object", required |-> <<"network">>], execute |-> "function"],
     [name |-> "getDexPools",
      description |-> "Get top pools on a specific DEX within a network",
      parameters |-> [type |-> "object", required |-> <<"network", "dex">>],
      execute |-> "function"],
     [name |-> "getPoolDetails",
      description |-> "Get detailed information about a specific pool on a network",
      parameters |-> [type |-> "object", required |-> <<"network", "poolAddress">>],
      execute |-> "function"],
     [name |-> "getTokenDetails",
      description |-> "Get detailed information about a specific token on a network",
      parameters |-> [type |-> "object", required |-> <<"network", "tokenAddress">>],
      execute |-> "function"],
     [name |-> "search",
      description |-> "Search for tokens, pools, and DEXes by name or identifier",
      parameters |-> [type |-> "object", required |-> <<"query">>], execute |-> "function"] >>

\* dexpaprikaPlugin: the plugin object exported by src/index.ts
dexpaprikaPlugin ==
  [name |-> "dexpaprika", description |-> "DeFi analytics plugin using DexPaprika API",
   actions |-> actions, evaluators |-> <<>>, providers |-> <<>>]

\* the names the registry can dispatch
actionNames == {dexpaprikaPlugin.actions[k].name : k \in DOMAIN dexpaprikaPlugin.actions}

(***************************************************************************)
(* actions[*].execute of src/actions/index.ts: request, formatting, catch  *)
(***************************************************************************)
actions_getNetworks_request(params) == [url |-> "/networks", params |-> NoFields]

actions_getNetworkDexes_request(params) ==
  [url |-> "/networks/" \o params.network \o "/dexes",
   params |-> [page |-> Default(params, "page", DefaultPage),
               limit |-> Default(params, "limit", DefaultLimit)]]

actions_getTopPools_request(params) ==
  [url |-> "/pools",
   params |-> [page |-> Default(params, "page", DefaultPage),
               limit |-> Default(params, "limit", DefaultLimit),
               order_by |-> Default(params, "orderBy", DefaultOrderBy),
               sort |-> Default(params, "sort", DefaultSort)]]

actions_getNetworkPools_request(params) ==
  [url |-> "/networks/" \o params.network \o "/pools",
   params |-> [page |-> Default(params, "page", DefaultPage),
               limit |-> Default(params, "limit", DefaultLimit),
               order_by |-> Default(params, "orderBy", DefaultOrderBy),
               sort |-> Default(params, "sort", DefaultSort)]]

actions_getDexPools_request(params) ==
  [url |-> "/networks/" \o params.network \o "/dexes/" \o params.dex \o "/pools",
   params |-> [page |-> Default(params, "page", DefaultPage),
               limit |-> Default(params, "limit", DefaultLimit),
               order_by |-> Default(params, "orderBy", DefaultOrderBy),
               sort |-> Default(params, "sort", DefaultSort)]]

actions_getPoolDetails_request(params) ==
  [url |-> "/networks/" \o params.network \o "/pools/" \o params.poolAddress,
   params |-> [inversed |-> Default(params, "inversed", DefaultInversed)]]

actions_getTokenDetails_request(params) ==
  [url |-> "/networks/" \o params.network \o "/tokens/" \o params.tokenAddress,
   params |-> NoFields]

\* no validation of the query: whatever the caller passed is sent
actions_search_request(params) ==
  [url |-> "/search",
   params |-> IF Has(params, "query") THEN [query |-> params.query] ELSE NoFields]

actionsRequest(op, params) ==
  CASE op = "getNetworks" -> actions_getNetworks_request(params)
    [] op = "getNetworkDexes" -> actions_getNetworkDexes_request(params)
    [] op = "getTopPools" -> actions_getTopPools_request(params)
    [] op = "getNetworkPools" -> actions_getNetworkPools_request(params)
    [] op = "getDexPools" -> actions_getDexPools_request(params)
    [] op = "getPoolDetails" -> actions_getPoolDetails_request(params)
    [] op = "getTokenDetails" -> actions_getTokenDetails_request(params)
    [] op = "search" -> actions_search_request(params)

\* a property copied into a new object only when the source has it
Opt(f, o, g) == IF Has(o, g) THEN (f :> o[g]) ELSE NoFields

\* x?.slice(0, n) || [] and x?.length || 0 read through this
ListOf(o, f) == IF Has(o, f) THEN o[f] ELSE <<>>

SearchTopN == 3

\* dex.split('_').map(w => w.charAt(0).toUpperCase() + w.slice(1)).join(' ')
RECURSIVE titleCaseFrom(_, _)
titleCaseFrom(s, wordStart) ==
  IF Len(s) = 0 THEN ""
  ELSE LET c == SubSeq(s, 1, 1)
           rest == SubSeq(s, 2, Len(s))
       IN IF c = "_" THEN " " \o titleCaseFrom(rest, TRUE)
          ELSE (IF wordStart THEN toUpperCase(c) ELSE c) \o titleCaseFrom(rest, FALSE)

formatDexName(dex) == titleCaseFrom(dex, TRUE)

\* `${pool.tokens?.[0]?.symbol || 'Token1'} - ${pool.tokens?.[1]?.symbol || 'Token2'}`
actions_poolName(pool) == SymbolOr(pool, 1, "Token1") \o " - " \o SymbolOr(pool, 2, "Token2")

actions_getNetworks_format(params, data) == Resolve(data)

actions_getNetworkDexes_format(params, data) == Resolve(data)

actions_getTopPools_format(params, data) ==
  IF IsNullish(data) THEN Throw(CannotRead(data, "pools"))
  ELSE LET body == Fields(data)
           pools == ListOf(body, "pools")
       IN Resolve(Obj(
            [formatted_response |->
               [title |-> "Top Liquidity Pools Across All Networks",
                pools |-> [k \in DOMAIN pools |->
                             [name |-> actions_poolName(pools[k]),
                              dex |-> Text(pools[k], "dex_name"),
                              network |-> Text(pools[k], "chain"),
                              volume_usd |-> usd(pools[k], "volume_usd"),
                              price_usd |-> usd(pools[k], "price_usd"),
                              price_change_24h |->
                                percentOf(pools[k], "last_price_change_usd_24h")]]]
               @@ Opt("page_info", body, "page_info"),
             raw_data |-> data]))

actions_getNetworkPools_format(params, data) ==
  IF IsNullish(data) THEN Throw(CannotRead(data, "pools"))
  ELSE LET body == Fields(data)
           pools == ListOf(body, "pools")
           networkName == capitalize(params.network)
       IN Resolve(Obj(
            [formatted_response |->
               [title |-> "Top Liquidity Pools on " \o networkName,
                network |-> networkName,
                pools |-> [k \in DOMAIN pools |->
                             [name |-> actions_poolName(pools[k]),
                              dex |-> Text(pools[k], "dex_name"),
                              volume_usd |-> usd(pools[k], "volume_usd"),
                              price_usd |-> usd(pools[k], "price_usd"),
                              price_change_24h |->
                                percentOf(pools[k], "last_price_change_usd_24h")]]]
               @@ Opt("page_info", body, "page_info"),
             raw_data |-> data]))

actions_getDexPools_format(params, data) ==
  IF IsNullish(data) THEN Throw(CannotRead(data, "pools"))
  ELSE LET body == Fields(data)
           pools == ListOf(body, "pools")
           networkName == capitalize(params.network)
           dexName == formatDexName(params.dex)
       IN Resolve(Obj(
            [formatted_response |->
               [title |-> dexName \o " Pools on " \o networkName,
                network |-> networkName,
                dex |-> dexName,
                pools |-> [k \in DOMAIN pools |->
                             [name |-> actions_poolName(pools[k]),
                              volume_usd |-> usd(pools[k], "volume_usd"),
                              price_usd |-> usd(pools[k], "price_usd"),
                              price_change_24h |->
                                percentOf(pools[k], "last_price_change_usd_24h")]]]
               @@ Opt("page_info", body, "page_info"),
             raw_data |-> data]))

actions_getPoolDetails_format(params, data) ==
  IF IsNullish(data) THEN Throw(CannotRead(data, "tokens"))
  ELSE LET pool == Fields(data)
       IN IF ~Has(pool, "transactions")
          THEN Throw(CannotRead(Undefined, "toLocaleString"))
          ELSE Resolve(Obj(
                 [formatted_response |->
                    [title |-> TokenText(pool, 1, "name") \o " (" \o TokenText(pool, 1, "symbol")
                               \o ") - " \o TokenText(pool, 2, "name") \o " ("
                               \o TokenText(pool, 2, "symbol") \o ")",
                     network |-> capitalize(params.network),
                     dex |-> Text(pool, "dex_name"),
                     price |-> usd(pool, "price_usd"),
                     price_change_24h |-> percentOf(pool, "last_price_change_usd_24h"),
                     volume_usd |-> usd(pool, "volume_usd"),
                     fee |-> actions_fee(pool),
                     tokens |-> << [name |-> TokenText(pool, 1, "name"),
                                    symbol |-> TokenText(pool, 1, "symbol"),
                                    address |-> TokenText(pool, 1, "id")],
                                   [name |-> TokenText(pool, 2, "name"),
                                    symbol |-> TokenText(pool, 2, "symbol"),
                                    address |-> TokenText(pool, 2, "id")] >>],
                  raw_data |-> data]))

actions_getTokenDetails_format(params, data) ==
  IF IsNullish(data) THEN Throw(CannotRead(data, "name"))
  ELSE LET token == Fields(data)
       IN Resolve(Obj(
            [formatted_response |->
               [title |-> Text(token, "name") \o " (" \o Text(token, "symbol") \o ")",
                network |-> capitalize(params.network),
                address |-> IF Has(token, "address") /\ token.address # ""
                            THEN token.address ELSE Text(token, "id")],
             raw_data |-> data]))

actions_search_format(params, data) ==
  IF Truthy(data)
  THEN LET body == Fields(data)
       IN Resolve(Obj(
            [formatted_response |->
               [title |-> "Search Results for \"" \o Text(params, "query") \o "\"",
                tokens |-> [count |-> Len(ListOf(body, "tokens")),
                            top_results |-> Slice(ListOf(body, "tokens"), SearchTopN)],
                pools |-> [count |-> Len(ListOf(body, "pools")),
                           top_results |-> Slice(ListOf(body, "pools"), SearchTopN)],
                dexes |-> [count |-> Len(ListOf(body, "dexes")),
                           top_results |-> Slice(ListOf(body, "dexes"), SearchTopN)]],
             raw_data |-> data]))
  ELSE Resolve(data)

actionsFormat(op, params, data) ==
  CASE op = "getNetworks" -> actions_getNetworks_format(params, data)
    [] op = "getNetworkDexes" -> actions_getNetworkDexes_format(params, data)
    [] op = "getTopPools" -> actions_getTopPools_format(params, data)
    [] op = "getNetworkPools" -> actions_getNetworkPools_format(params, data)
    [] op = "getDexPools" -> actions_getDexPools_format(params, data)
    [] op = "getPoolDetails" -> actions_getPoolDetails_format(params, data)
    [] op = "getTokenDetails" -> actions_getTokenDetails_format(params, data)
    [] op = "search" -> actions_search_format(params, data)

\* the catch block shared, textually, by every actions[*].execute
actions_catch(error) ==
  IF error.isAxiosError
  THEN [message |-> "DexPaprika API error: " \o responseStatusText(error) \o " - "
                     \o responseErrorOrMessage(error)]
  ELSE [message |-> "Unexpected error: " \o error.message]

(***************************************************************************)
(* The operations module (src/unnamed/part_001, second copy, lines 710-)   *)
(***************************************************************************)
TopN == 5
MinQueryLength == 3

RECURSIVE JoinWith(_, _)
JoinWith(parts, sep) ==
  IF Len(parts) = 0 THEN ""
  ELSE IF Len(parts) = 1 THEN parts[1]
  ELSE parts[1] \o sep \o JoinWith(Tail(parts), sep)

\* tokens.map(t => `${t.name} (${t.symbol})`).join(' - ')
tokenSymbolsOf(tokens) ==
  JoinWith([k \in DOMAIN tokens |->
              Text(tokens[k], "name") \o " (" \o Text(tokens[k], "symbol") \o ")"], " - ")

\* formatPoolData reading its first pool before mapping
formatPoolData_firstPool(pools) ==
  IF pools = <<>> \/ \E k \in DOMAIN pools : ~Has(pools[k], "tokens")
  THEN Throw(CannotRead(Undefined, "map"))
  ELSE Resolve([k \in DOMAIN pools |->
                  [position |-> k,
                   id |-> Text(pools[k], "id"),
                   dex |-> Text(pools[k], "dex_name"),
                   tokens |-> tokenSymbolsOf(pools[k].tokens),
                   volume |-> usdFixed(pools[k], "volume_usd", 2),
                   price |-> usdFixed(pools[k], "price_usd", 4)]])

\* formatPoolData(pools): pool.tokens.map throws on a pool without tokens
formatPoolData(pools) ==
  IF \E k \in DOMAIN pools : ~Has(pools[k], "tokens")
  THEN Throw(CannotRead(Undefined, "map"))
  ELSE Resolve([k \in DOMAIN pools |->
                  [position |-> k,
                   id |-> Text(pools[k], "id"),
                   dex |-> Text(pools[k], "dex_name"),
                   tokens |-> tokenSymbolsOf(pools[k].tokens),
                   volume |-> usdFixed(pools[k], "volume_usd", 2),
                   price |-> usdFixed(pools[k], "price_usd", 4)]])

getNetworks_request(params) == [url |-> "/networks", params |-> NoFields]

getNetworkDexes_request(params) ==
  [url |-> "/networks/" \o params.network \o "/dexes",
   params |-> [page |-> Default(params, "page", DefaultPage),
               limit |-> Default(params, "limit", DefaultLimit)]]

getTopPools_request(params) ==
  [url |-> "/pools",
   params |-> [page |-> Default(params, "page", DefaultPage),
               limit |-> Default(params, "limit", DefaultLimit),
               order_by |-> Default(params, "orderBy", DefaultOrderBy),
               sort |-> Default(params, "sort", DefaultSort)]]

\* the same request built with a wrong default for limit
getNetworkPools_request_limit20(params) ==
  [url |-> "/networks/" \o params.network \o "/pools",
   params |-> [page |-> Default(params, "page", DefaultPage),
               limit |-> Default(params, "limit", 20),
               order_by |-> Default(params, "orderBy", DefaultOrderBy),
               sort |-> Default(params, "sort", DefaultSort)]]

getNetworkPools_request(params) ==
  [url |-> "/networks/" \o params.network \o "/pools",
   params |-> [page |-> Default(params, "page", DefaultPage),
               limit |-> Default(params, "limit", DefaultLimit),
               order_by |-> Default(params, "orderBy", DefaultOrderBy),
               sort |-> Default(params, "sort", DefaultSort)]]

getDexPools_request(params) ==
  [url |-> "/networks/" \o params.network \o "/dexes/" \o params.dex \o "/pools",
   params |-> [page |-> Default(params, "page", DefaultPage),
               limit |-> Default(params, "limit", DefaultLimit),
               order_by |-> Default(params, "orderBy", DefaultOrderBy),
               sort |-> Default(params, "sort", DefaultSort)]]

getPoolDetails_request(params) ==
  [url |-> "/networks/" \o params.network \o "/pools/" \o params.poolAddress,
   params |-> [inversed |-> Default(params, "inversed", DefaultInversed)]]

getTokenDetails_request(params) ==
  [url |-> "/networks/" \o params.network \o "/tokens/" \o params.tokenAddress,
   params |-> NoFields]

getStats_request(params) == [url |-> "/stats", params |-> NoFields]

\* the client call of search, issued after the direct call has settled
search_request(params) == [url |-> "/search", params |-> [query |-> params.query]]

\* the URL of the direct and the fallback axios.get of search
search_directUrl(config, params) ==
  config.DEXPAPRIKA_API_URL.v \o "/search?query=" \o encodeURIComponent(params.query)

\* the two guards at the top of search; the result is the Error thrown, if any
search_validate(params) ==
  IF ~Has(params, "query") \/ params.query = "" \/ trim(params.query) = ""
  THEN Throw(Error("Search query cannot be empty"))
  ELSE IF Len(trim(params.query)) < MinQueryLength
  THEN Throw(Error("Search query must be at least 3 characters long"))
  ELSE Resolve(params.query)

moduleRequest(op, params) ==
  CASE op = "getNetworks" -> getNetworks_request(params)
    [] op = "getNetworkDexes" -> getNetworkDexes_request(params)
    [] op = "getTopPools" -> getTopPools_request(params)
    [] op = "getNetworkPools" -> getNetworkPools_request(params)
    [] op = "getDexPools" -> getDexPools_request(params)
    [] op = "getPoolDetails" -> getPoolDetails_request(params)
    [] op = "getTokenDetails" -> getTokenDetails_request(params)
    [] op = "getStats" -> getStats_request(params)
    [] op = "search" -> search_request(params)

getNetworks_format(params, data) == Resolve(data)

getNetworkDexes_format(params, data) == Resolve(data)

\* the body shared by getTopPools, getNetworkPools and getDexPools after the
\* request: slice to the top five, format, and rebuild raw_data from the slice
poolsEnvelope(data, onText) ==
  IF IsNullish(data) THEN Throw(CannotRead(data, "pools"))
  ELSE LET body == Fields(data)
       IN IF Has(body, "pools")
          THEN LET topPools == Slice(body.pools, TopN)
                   formatted == formatPoolData(topPools)
               IN IF ~formatted.ok THEN formatted
                  ELSE LET formattedPools == formatted.value
                       IN Resolve(Obj(
                            [formatted_response |->
                               [title |-> "Top " \o ToString(Len(formattedPools))
                                          \o " Pools on " \o onText,
                                pools |-> formattedPools,
                                total_pools |-> Len(body.pools),
                                top_pool_summary |->
                                  IF Len(formattedPools) > 0
                                  THEN [name |-> formattedPools[1].id,
                                        dex |-> formattedPools[1].dex,
                                        tokens |-> formattedPools[1].tokens]
                                  ELSE Null],
                             raw_data |-> Obj([pools |-> topPools]
                                              @@ Opt("page_info", body, "page_info"))]))
          ELSE Resolve(data)

getTopPools_format(params, data) == poolsEnvelope(data, "All networks")

getNetworkPools_format(params, data) == poolsEnvelope(data, capitalize(params.network))

getDexPools_format(params, data) ==
  poolsEnvelope(data, capitalize(params.dex) \o " (" \o capitalize(params.network) \o ")")

getPoolDetails_format(params, data) ==
  IF Truthy(data)
  THEN LET pool == Fields(data)
           tokenSymbols ==
             IF Has(pool, "tokens") /\ tokenSymbolsOf(pool.tokens) # ""
             THEN tokenSymbolsOf(pool.tokens) ELSE "Unknown"
       IN Resolve(Obj(
            [formatted_response |->
               [title |-> "Pool Details: " \o tokenSymbols,
                network |-> capitalize(params.network),
                dex |-> Text(pool, "dex_name"),
                price |-> usdFixed(pool, "price_usd", 4),
                volume_24h |-> usdFixed(pool, "volume_usd", 2),
                price_change_24h |-> signedPercentOrNA(pool, "last_price_change_usd_24h"),
                fee |-> getPoolDetails_fee(pool),
                tokens |-> tokenSymbols]
               @@ Opt("pool_id", pool, "id"),
             raw_data |-> data]))
  ELSE Resolve(data)

getTokenDetails_format(params, data) ==
  IF Truthy(data)
  THEN LET token == Fields(data)
       IN Resolve(Obj(
            [formatted_response |->
               [title |-> "Token Details: " \o Text(token, "name") \o " ("
                          \o Text(token, "symbol") \o ")",
                network |-> capitalize(params.network),
                name |-> Text(token, "name"),
                symbol |-> Text(token, "symbol")]
               @@ Opt("token_id", token, "id"),
             raw_data |-> data]))
  ELSE Resolve(data)

\* every total read off pools_count
CountOr0_poolsCount(stats, f) == IF Has(stats, "pools_count") THEN stats.pools_count ELSE 0

\* stats.f || 0
CountOr0(stats, f) == IF Has(stats, f) THEN stats[f] ELSE 0

getStats_format(params, data) ==
  IF Truthy(data)
  THEN LET stats == Fields(data)
       IN Resolve(Obj(
            [formatted_response |->
               [title |-> "DexPaprika Platform Statistics",
                total_networks |-> CountOr0(stats, "networks_count"),
                total_dexes |-> CountOr0(stats, "dexes_count"),
                total_pools |-> CountOr0(stats, "pools_count"),
                total_tokens |-> CountOr0(stats, "tokens_count")],
             raw_data |-> data]))
  ELSE Resolve(data)

\* the formatting block of search, the same text in both copies of the module
search_envelope(params, data) ==
  IF Truthy(data)
  THEN LET body == Fields(data)
           tokens == Slice(ListOf(body, "tokens"), SearchTopN)
           pools == Slice(ListOf(body, "pools"), SearchTopN)
           dexes == Slice(ListOf(body, "dexes"), SearchTopN)
       IN IF \E k \in DOMAIN pools : ~Has(pools[k], "tokens")
          THEN Throw(CannotRead(Undefined, "map"))
          ELSE Resolve(Obj(
            [formatted_response |->
               [title |-> "Search Results for \"" \o Text(params, "query") \o "\"",
                tokens |-> [count |-> Len(ListOf(body, "tokens")),
                            top_results |->
                              [k \in DOMAIN tokens |->
                                 [id |-> Text(tokens[k], "id"),
                                  name |-> Text(tokens[k], "name"),
                                  symbol |-> Text(tokens[k], "symbol"),
                                  network |-> Text(tokens[k], "chain")]]],
                pools |-> [count |-> Len(ListOf(body, "pools")),
                           top_results |->
                             [k \in DOMAIN pools |->
                                [position |-> k,
                                 id |-> Text(pools[k], "id"),
                                 dex |-> Text(pools[k], "dex_name"),
                                 tokens |-> tokenSymbolsOf(pools[k].tokens),
                                 network |-> Text(pools[k], "chain")]]],
                dexes |-> [count |-> Len(ListOf(body, "dexes")),
                           top_results |->
                             [k \in DOMAIN dexes |->
                                [name |-> Text(dexes[k], "dex_name"),
                                 network |-> Text(dexes[k], "chain"),
                                 protocol |-> Text(dexes[k], "protocol")]]]],
             raw_data |-> data]))
  ELSE Resolve(data)

\* the success branch of the client call of search in the second copy: the
\* debug line reads JSON.stringify(response.data).substring(0, 100) before
\* the body is tested, and JSON.stringify(undefined) is undefined
search_format(params, data) ==
  IF data.t = "undefined" THEN Throw(CannotRead(Undefined, "substring"))
  ELSE search_envelope(params, data)

\* `${pool.fee * 100}%` of the first copy's getPoolDetails: null * 100 is 0
firstCopy_fee(pool) ==
  IF ~Has(pool, "fee") THEN "NaN%"
  ELSE IF pool.fee.t = "null" THEN numberText(0) \o "%"
  ELSE numberText(pool.fee.v) \o "%"

\* the first copy of the operations module differs from the second in two
\* operations: getPoolDetails shows the fee without a null check, and
\* search sends its one client request without validating the query
firstCopyRequest(op, params) ==
  IF op = "search"
  THEN [url |-> "/search",
        params |-> IF Has(params, "query") THEN [query |-> params.query] ELSE NoFields]
  ELSE getPoolDetails_request(params)

firstCopyFormat(op, params, data) ==
  IF op = "search" THEN search_envelope(params, data)
  ELSE LET r == getPoolDetails_format(params, data)
       IN IF r.ok /\ HasProp(r.value, "formatted_response")
          THEN Resolve(Obj([r.value.v EXCEPT
                              !.formatted_response.fee = firstCopy_fee(Fields(data))]))
          ELSE r

moduleFormat(op, params, data) ==
  CASE op = "getNetworks" -> getNetworks_format(params, data)
    [] op = "getNetworkDexes" -> getNetworkDexes_format(params, data)
    [] op = "getTopPools" -> getTopPools_format(params, data)
    [] op = "getNetworkPools" -> getNetworkPools_format(params, data)
    [] op = "getDexPools" -> getDexPools_format(params, data)
    [] op = "getPoolDetails" -> getPoolDetails_format(params, data)
    [] op = "getTokenDetails" -> getTokenDetails_format(params, data)
    [] op = "getStats" -> getStats_format(params, data)
    [] op = "search" -> search_format(params, data)

\* the catch block shared, textually, by every operation except search
module_catch(error) ==
  IF error.isAxiosError
  THEN [message |-> "DexPaprika API error: " \o responseStatusText(error) \o " - "
                     \o responseErrorOrMessage(error)]
  ELSE [message |-> "Unexpected error: " \o error.message]

\* the outer catch block of search
search_catch(error) ==
  IF error.isAxiosError
  THEN IF error.hasResponse /\ error.status = 400
       THEN [message |-> "DexPaprika search error: "
                 \o (IF HasProp(error.data, "error") /\ error.data.v.error # ""
                     THEN error.data.v.error
                     ELSE "The search query is invalid or too short (min 3 characters required)")
                 \o " - To search DexPaprika, try using a more specific query with at least 3 characters. For tokens, try including the full name or symbol."]
       ELSE [message |-> "DexPaprika API error: " \o responseStatusText(error) \o " - "
                 \o responseErrorOrMessage(error)
                 \o ". Please try a different search term or check your network connection."]
  ELSE [message |-> "Unexpected error: " \o error.message
                    \o ". Please try again with a different search term."]

(***************************************************************************)
(* The schema-validated handlers (src/actions/*.ts, src/unnamed/part_000)  *)
(***************************************************************************)
HandlerTopN == 5
NoDataMessage == "No data received from DexPaprika API"

GET_NETWORKS_request(content) == [url |-> "/networks", params |-> NoFields]

GET_NETWORK_DEXES_request(content) ==
  [url |-> "/networks/" \o content.network \o "/dexes",
   params |-> [page |-> Default(content, "page", DefaultPage),
               limit |-> Default(content, "limit", DefaultLimit)]]

GET_TOP_POOLS_request(content) ==
  [url |-> "/pools",
   params |-> [page |-> Default(content, "page", DefaultPage),
               limit |-> Default(content, "limit", DefaultLimit),
               order_by |-> Default(content, "orderBy", DefaultOrderBy),
               sort |-> Default(content, "sort", DefaultSort)]]

GET_NETWORK_POOLS_request(content) ==
  [url |-> "/networks/" \o content.network \o "/pools",
   params |-> [page |-> Default(content, "page", DefaultPage),
               limit |-> Default(content, "limit", DefaultLimit),
               order_by |-> Default(content, "orderBy", DefaultOrderBy),
               sort |-> Default(content, "sort", DefaultSort)]]

GET_DEX_POOLS_request(content) ==
  [url |-> "/networks/" \o content.network \o "/dexes/" \o content.dex \o "/pools",
   params |-> [page |-> Default(content, "page", DefaultPage),
               limit |-> Default(content, "limit", DefaultLimit),
               order_by |-> Default(content, "orderBy", DefaultOrderBy),
               sort |-> Default(content, "sort", DefaultSort)]]

GET_POOL_DETAILS_request(content) ==
  [url |-> "/networks/" \o content.network \o "/pools/" \o content.poolAddress,
   params |-> [inversed |-> Default(content, "inversed", DefaultInversed)]]

GET_TOKEN_DETAILS_request(content) ==
  [url |-> "/networks/" \o content.network \o "/tokens/" \o content.tokenAddress,
   params |-> NoFields]

\* the handler reads the query and sends it; the schema is only used by validate
SEARCH_request(content) ==
  [url |-> "/search",
   params |-> IF Has(content, "query") THEN [query |-> content.query] ELSE NoFields]

handlerRequest(op, content) ==
  CASE op = "getNetworks" -> GET_NETWORKS_request(content)
    [] op = "getNetworkDexes" -> GET_NETWORK_DEXES_request(content)
    [] op = "getTopPools" -> GET_TOP_POOLS_request(content)
    [] op = "getNetworkPools" -> GET_NETWORK_POOLS_request(content)
    [] op = "getDexPools" -> GET_DEX_POOLS_request(content)
    [] op = "getPoolDetails" -> GET_POOL_DETAILS_request(content)
    [] op = "getTokenDetails" -> GET_TOKEN_DETAILS_request(content)
    [] op = "search" -> SEARCH_request(content)

\* z.enum([...]) of the pool-listing schemas
OrderByEnum ==
  {"volume_usd", "price_usd", "transactions", "last_price_change_usd_24h", "created_at"}

SortEnum == {"asc", "desc"}

\* z.string().min(1)
NonEmptyString(content, f) == Has(content, f) /\ content[f] # ""

\* z.enum(values).optional()
OptionalEnum(content, f, values) == Has(content, f) => content[f] \in values

\* GetTopPoolsSchema.safeParse(content).success (page and limit are numbers)
isGetTopPoolsContent(content) ==
  OptionalEnum(content, "orderBy", OrderByEnum) /\ OptionalEnum(content, "sort", SortEnum)

\* the validate property of each handler's Action: the content against its schema
validate(op, content) ==
  CASE op = "getNetworks" -> TRUE
    [] op = "getNetworkDexes" -> NonEmptyString(content, "network")
    [] op = "getTopPools" -> isGetTopPoolsContent(content)
    [] op = "getNetworkPools" ->
         NonEmptyString(content, "network") /\ isGetTopPoolsContent(content)
    [] op = "getDexPools" ->
         /\ NonEmptyString(content, "network") /\ NonEmptyString(content, "dex")
         /\ isGetTopPoolsContent(content)
    [] op = "getPoolDetails" ->
         NonEmptyString(content, "network") /\ NonEmptyString(content, "poolAddress")
    [] op = "getTokenDetails" ->
         NonEmptyString(content, "network") /\ NonEmptyString(content, "tokenAddress")
    [] op = "search" -> NonEmptyString(content, "query")

\* the pagination text showing the upstream's 0-indexed page as it is
pageText_zeroIndexed(page_info) ==
  "Page " \o ToString(page_info.page) \o " of " \o ToString(page_info.total_pages)

\* `Page ${page_info.page + 1} of ${page_info.total_pages}`
pageText(page_info) ==
  "Page " \o ToString(page_info.page + 1) \o " of " \o ToString(page_info.total_pages)

\* `${token0}-${token1}` of the handlers
handlerPoolName(pool) == SymbolOr(pool, 1, "Token1") \o "-" \o SymbolOr(pool, 2, "Token2")

\* the success payload handed to the callback: the header lines of the text
\* and the content object
Payload(headerLines, content) == [headerLines |-> headerLines, content |-> content]

GET_NETWORKS_format(content, data) ==
  IF IsNullish(data) THEN Throw(CannotRead(data, "map"))
  ELSE IF data.t # "array" THEN Throw(Error("networks.map is not a function"))
  ELSE Resolve(Payload(<<"# Supported Blockchain Networks">>,
         [type |-> "success",
          data |-> [formatted_networks |->
                      [k \in DOMAIN data.v |-> [id |-> Text(data.v[k], "id"),
                                                name |-> Text(data.v[k], "name")]],
                    raw_networks |-> data]]))

GET_NETWORK_DEXES_format(content, data) ==
  IF ~Truthy(data) THEN Throw(Error(NoDataMessage))
  ELSE LET body == Fields(data)
           networkName == capitalize(content.network)
       IN IF ~Has(body, "page_info") THEN Throw(CannotRead(Undefined, "page"))
          ELSE IF ~Has(body, "dexes") THEN Throw(CannotRead(Undefined, "map"))
          ELSE Resolve(Payload(
                 <<"DEXes on " \o networkName \o " (" \o pageText(body.page_info) \o "):",
                   "Found " \o ToString(body.page_info.total_items) \o " DEXes.">>,
                 [network |-> networkName, dexes |-> body.dexes,
                  page_info |-> body.page_info]))

\* the formatting shared by the three pool-listing handlers
handlerPools(body, withDex, withNetwork) ==
  [k \in DOMAIN body.pools |->
     [position |-> k, name |-> handlerPoolName(body.pools[k]),
      volume |-> usd(body.pools[k], "volume_usd"),
      price |-> usd(body.pools[k], "price_usd"),
      price_change_24h |-> percentOrNA(body.pools[k], "last_price_change_usd_24h")]
     @@ (IF withDex THEN [dex |-> Text(body.pools[k], "dex_name")] ELSE NoFields)
     @@ (IF withNetwork THEN [network |-> Text(body.pools[k], "chain")] ELSE NoFields)]

GET_TOP_POOLS_format(content, data) ==
  IF ~Truthy(data) THEN Throw(Error(NoDataMessage))
  ELSE LET body == Fields(data)
       IN IF ~Has(body, "pools") THEN Throw(CannotRead(Undefined, "map"))
          ELSE IF ~Has(body, "page_info") THEN Throw(CannotRead(Undefined, "page"))
          ELSE Resolve(Payload(
                 <<"Top Liquidity Pools Across All Networks ("
                   \o pageText(body.page_info) \o ")",
                   "Total pools: " \o ToString(body.page_info.total_items)>>,
                 [pools |-> handlerPools(body, TRUE, TRUE),
                  page_info |-> body.page_info,
                  order_by |-> Default(content, "orderBy", DefaultOrderBy),
                  sort |-> Default(content, "sort", DefaultSort)]))

GET_NETWORK_POOLS_format(content, data) ==
  IF ~Truthy(data) THEN Throw(Error(NoDataMessage))
  ELSE LET body == Fields(data)
           networkName == capitalize(content.network)
       IN IF ~Has(body, "pools") THEN Throw(CannotRead(Undefined, "map"))
          ELSE IF ~Has(body, "page_info") THEN Throw(CannotRead(Undefined, "page"))
          ELSE Resolve(Payload(
                 <<"Top Liquidity Pools on " \o networkName \o " ("
                   \o pageText(body.page_info) \o ")",
                   "Total pools: " \o ToString(body.page_info.total_items)>>,
                 [network |-> networkName,
                  pools |-> handlerPools(body, TRUE, FALSE),
                  page_info |-> body.page_info,
                  order_by |-> Default(content, "orderBy", DefaultOrderBy),
                  sort |-> Default(content, "sort", DefaultSort)]))

GET_DEX_POOLS_format(content, data) ==
  IF ~Truthy(data) THEN Throw(Error(NoDataMessage))
  ELSE LET body == Fields(data)
           networkName == capitalize(content.network)
           dexName == formatDexName(content.dex)
       IN IF ~Has(body, "pools") THEN Throw(CannotRead(Undefined, "map"))
          ELSE IF ~Has(body, "page_info") THEN Throw(CannotRead(Undefined, "page"))
          ELSE Resolve(Payload(
                 <<"Top Liquidity Pools on " \o dexName \o " (" \o networkName \o ")",
                   pageText(body.page_info),
                   "Total pools: " \o ToString(body.page_info.total_items)>>,
                 [network |-> networkName, dex |-> dexName,
                  pools |-> handlerPools(body, FALSE, FALSE),
                  page_info |-> body.page_info,
                  order_by |-> Default(content, "orderBy", DefaultOrderBy),
                  sort |-> Default(content, "sort", DefaultSort)]))

GET_POOL_DETAILS_format(content, data) ==
  IF ~Truthy(data) THEN Throw(Error(NoDataMessage))
  ELSE LET pool == Fields(data)
           networkName == capitalize(content.network)
           poolTitle == TokenText(pool, 1, "name") \o " (" \o TokenText(pool, 1, "symbol")
                        \o ") - " \o TokenText(pool, 2, "name") \o " ("
                        \o TokenText(pool, 2, "symbol") \o ")"
       IN IF ~Has(pool, "tokens") THEN Throw(CannotRead(Undefined, "map"))
          ELSE Resolve(Payload(
                 <<"Pool Details: " \o poolTitle, "Network: " \o networkName,
                   "DEX: " \o Text(pool, "dex_name"),
                   "Address: " \o content.poolAddress>>,
                 [network |-> networkName, pool_address |-> content.poolAddress,
                  dex |-> Text(pool, "dex_name"),
                  formatted_response |->
                    [title |-> poolTitle, network |-> networkName,
                     dex |-> Text(pool, "dex_name"), address |-> content.poolAddress,
                     price |-> usdOrNA(pool, "price_usd"),
                     price_change_24h |-> percentOrNA(pool, "last_price_change_usd_24h"),
                     volume_usd |-> usdOrNA(pool, "volume_usd"),
                     fee |-> GET_POOL_DETAILS_fee(pool),
                     tokens |-> << [name |-> TokenText(pool, 1, "name"),
                                    symbol |-> TokenText(pool, 1, "symbol"),
                                    address |-> TokenText(pool, 1, "id")],
                                   [name |-> TokenText(pool, 2, "name"),
                                    symbol |-> TokenText(pool, 2, "symbol"),
                                    address |-> TokenText(pool, 2, "id")] >>],
                  raw_data |-> data]))

GET_TOKEN_DETAILS_format(content, data) ==
  IF ~Truthy(data) THEN Throw(Error(NoDataMessage))
  ELSE LET token == Fields(data)
           networkName == capitalize(content.network)
           tokenTitle == Text(token, "name") \o " (" \o Text(token, "symbol") \o ")"
           address == IF Has(token, "address") /\ token.address # ""
                      THEN token.address ELSE Text(token, "id")
       IN Resolve(Payload(
            <<"Token Details: " \o tokenTitle, "Network: " \o networkName,
              "Address: " \o address>>,
            [network |-> networkName, token_address |-> content.tokenAddress,
             formatted_response |->
               [title |-> tokenTitle, network |-> networkName, address |-> address],
             raw_data |-> data]))

SEARCH_format(content, data) ==
  IF ~Truthy(data) THEN Throw(Error(NoDataMessage))
  ELSE LET body == Fields(data)
           tokens == Slice(ListOf(body, "tokens"), HandlerTopN)
           pools == Slice(ListOf(body, "pools"), HandlerTopN)
           dexes == Slice(ListOf(body, "dexes"), HandlerTopN)
           found == Len(ListOf(body, "tokens")) + Len(ListOf(body, "pools"))
                    + Len(ListOf(body, "dexes"))
       IN Resolve(Payload(
            <<IF found = 0
              THEN "No results found for \"" \o Text(content, "query")
                   \o "\". Try a different search term."
              ELSE "Search Results for \"" \o Text(content, "query") \o "\":">>,
            [query |-> Text(content, "query"),
             formatted_response |->
               [title |-> "Search Results for \"" \o Text(content, "query") \o "\"",
                tokens |-> [count |-> Len(ListOf(body, "tokens")),
                            top_results |->
                              [k \in DOMAIN tokens |->
                                 [position |-> k,
                                  name |-> Text(tokens[k], "name") \o " ("
                                           \o Text(tokens[k], "symbol") \o ")",
                                  network |-> Text(tokens[k], "chain"),
                                  address |-> Text(tokens[k], "id")]]],
                pools |-> [count |-> Len(ListOf(body, "pools")),
                           top_results |->
                             [k \in DOMAIN pools |->
                                [position |-> k, name |-> handlerPoolName(pools[k]),
                                 dex |-> Text(pools[k], "dex_name"),
                                 network |-> Text(pools[k], "chain"),
                                 address |-> Text(pools[k], "id")]]],
                dexes |-> [count |-> Len(ListOf(body, "dexes")),
                           top_results |->
                             [k \in DOMAIN dexes |->
                                [position |-> k, name |-> Text(dexes[k], "dex_name"),
                                 network |-> Text(dexes[k], "chain"),
                                 protocol |-> Text(dexes[k], "protocol")]]]],
             raw_data |-> data]))

handlerFormat(op, content, data) ==
  CASE op = "getNetworks" -> GET_NETWORKS_format(content, data)
    [] op = "getNetworkDexes" -> GET_NETWORK_DEXES_format(content, data)
    [] op = "getTopPools" -> GET_TOP_POOLS_format(content, data)
    [] op = "getNetworkPools" -> GET_NETWORK_POOLS_format(content, data)
    [] op = "getDexPools" -> GET_DEX_POOLS_format(content, data)
    [] op = "getPoolDetails" -> GET_POOL_DETAILS_format(content, data)
    [] op = "getTokenDetails" -> GET_TOKEN_DETAILS_format(content, data)
    [] op = "search" -> SEARCH_format(content, data)

\* the payload of the error callback: errorMessage, error.message and
\* axios.isAxiosError(error) ? error.response?.status : undefined
ErrorPayload(text, error) ==
  [text |-> text,
   content |-> [error |-> error.message]
               @@ (IF error.isAxiosError /\ error.hasResponse
                   THEN [statusCode |-> error.status] ELSE NoFields)]

RateLimitMessage == "Rate limit exceeded. Please try again later."

\* `API error: ${error.response?.status} - ${error.response?.data?.error || error.message}`
apiErrorText(error) ==
  "API error: " \o responseStatusText(error) \o " - " \o responseErrorOrMessage(error)

\* catch block with a 404 branch, a 429 branch and the generic branch
catchWith404(error, notFound) ==
  ErrorPayload(
    IF error.isAxiosError
    THEN IF error.hasResponse /\ error.status = 404 THEN notFound
         ELSE IF error.hasResponse /\ error.status = 429 THEN RateLimitMessage
         ELSE apiErrorText(error)
    ELSE "Error: " \o error.message,
    error)

\* catch block with only the 429 branch and the generic branch
catchNo404(error) ==
  ErrorPayload(
    IF error.isAxiosError
    THEN IF error.hasResponse /\ error.status = 429 THEN RateLimitMessage
         ELSE apiErrorText(error)
    ELSE "Error: " \o error.message,
    error)

GET_TOP_POOLS_catch(error) == catchNo404(error)

SEARCH_catch(error) == catchNo404(error)

GET_NETWORK_DEXES_catch(error) ==
  catchWith404(error, "Network not found. Please check the network ID and try again.")

GET_NETWORK_POOLS_catch(error) ==
  catchWith404(error, "Network not found. Please check the network ID and try again.")

GET_DEX_POOLS_catch(error) ==
  catchWith404(error, "Network or DEX not found. Please check the IDs and try again.")

GET_POOL_DETAILS_catch(error) ==
  catchWith404(error,
    "Pool not found. Please check the network and pool address and try again.")

GET_TOKEN_DETAILS_catch(error) ==
  catchWith404(error,
    "Token not found. Please check the network and token address and try again.")

\* GET_NETWORKS passes { type: "error", content: message }; the message is kept
\* in text and the type in content
GET_NETWORKS_catch(error) ==
  [text |->
     IF error.isAxiosError
     THEN IF error.hasResponse /\ error.status = 404
          THEN "The networks endpoint could not be found. The API might be down or the endpoint has changed."
          ELSE IF error.hasResponse /\ error.status = 429
          THEN "Rate limit exceeded. Please try again later or consider using an API key."
          ELSE apiErrorText(error)
     ELSE "Unexpected error while fetching networks: " \o error.message,
   content |-> [type |-> "error"]]

handlerCatch(op, error) ==
  CASE op = "getNetworks" -> GET_NETWORKS_catch(error)
    [] op = "getNetworkDexes" -> GET_NETWORK_DEXES_catch(error)
    [] op = "getTopPools" -> GET_TOP_POOLS_catch(error)
    [] op = "getNetworkPools" -> GET_NETWORK_POOLS_catch(error)
    [] op = "getDexPools" -> GET_DEX_POOLS_catch(error)
    [] op = "getPoolDetails" -> GET_POOL_DETAILS_catch(error)
    [] op = "getTokenDetails" -> GET_TOKEN_DETAILS_catch(error)
    [] op = "search" -> SEARCH_catch(error)

(***************************************************************************)
(* The environment: callers' inputs, settings providers, the upstream API  *)
(***************************************************************************)
MaxPools == 6
MaxResults == 4

Token(k) ==
  [id |-> "0xtoken" \o ToString(k), name |-> "Token " \o ToString(k),
   symbol |-> "TK" \o ToString(k), chain |-> "ethereum", decimals |-> 18]

\* the 24h price change of the k-th pool, in ten-thousandths: -1.25%, 0, 1.25%, ..
PriceChange(k) == (k - 2) * 125

\* the trading fee of the pools, in ten-thousandths: 0.003
Fee == 30

Pool(k) ==
  [id |-> "pool" \o ToString(k), dex_id |-> "uniswap_v3", dex_name |-> "Uniswap V3",
   chain |-> "ethereum", tokens |-> <<Token(2 * k - 1), Token(2 * k)>>,
   volume_usd |-> 1000 * k, price_usd |-> k, transactions |-> 10 * k,
   last_price_change_usd_24h |-> PriceChange(k), fee |-> Number(Fee)]

Dex(k) ==
  [dex_id |-> "dex" \o ToString(k), dex_name |-> "Dex " \o ToString(k),
   chain |-> "ethereum", protocol |-> "uniswapv" \o ToString(k)]

\* the page_info of a page with n entries: the n entries of page n % 3, the
\* last page of the listing; an empty page lies past the last one
PageInfo(n) ==
  IF n = 0 THEN [page |-> 3, limit |-> 10, total_items |-> 25, total_pages |-> 3]
  ELSE [page |-> n % 3, limit |-> 10, total_items |-> 10 * (n % 3) + n,
        total_pages |-> (n % 3) + 1]

PoolsBody(n) == Obj([pools |-> [k \in 1..n |-> Pool(k)], page_info |-> PageInfo(n)])

DexesBody(n) == Obj([dexes |-> [k \in 1..n |-> Dex(k)], page_info |-> PageInfo(n)])

SearchBody(n) ==
  Obj([tokens |-> [k \in 1..n |-> Token(k)], pools |-> [k \in 1..n |-> Pool(k)],
       dexes |-> [k \in 1..n |-> Dex(k)]])

NetworksBody ==
  Arr(<< [id |-> "ethereum", display_name |-> "Ethereum"],
         [id |-> "solana", display_name |-> "Solana"] >>)

StatsBody ==
  Obj([networks_count |-> 10, dexes_count |-> 100, pools_count |-> 1000,
       tokens_count |-> 5000])

\* a pool that came without its tokens array
BarePool == [id |-> "pool0", dex_name |-> "Uniswap V3", chain |-> "ethereum"]

\* a pool that is complete except that its tokens array has n entries
PoolWithTokens(n) == [Pool(1) EXCEPT !.tokens = SubSeq(@, 1, n)]

\* a pool whose fee is null
PoolWithNullFee == [Pool(1) EXCEPT !.fee = Null]

\* a pool that is complete except that it has no tokens field
PoolWithoutTokens == [f \in DOMAIN Pool(1) \ {"tokens"} |-> Pool(1)[f]]

\* the bodies with every documented field of the operation's response
WellFormedBodies(op) ==
  CASE op = "getNetworks" -> {NetworksBody}
    [] op = "getNetworkDexes" -> {DexesBody(0), DexesBody(2)}
    [] op \in {"getTopPools", "getNetworkPools", "getDexPools"} ->
         {PoolsBody(0), PoolsBody(2), PoolsBody(MaxPools)}
    [] op = "getPoolDetails" -> {Obj(Pool(1)), Obj(Pool(2)), Obj(Pool(3)), Obj(PoolWithNullFee)}
    [] op = "getTokenDetails" -> {Obj(Token(1))}
    [] op = "search" -> {SearchBody(0), SearchBody(MaxResults)}
    [] op = "getStats" -> {StatsBody}

\* bodies that lack documented fields
PartialBodies(op) ==
  CASE op \in {"getTopPools", "getNetworkPools", "getDexPools"} ->
         {Obj([pools |-> <<BarePool>>]),
          Obj([pools |-> <<PoolWithoutTokens, PoolWithTokens(1), BarePool>>,
               page_info |-> PageInfo(3)])}
    [] op = "getPoolDetails" ->
         {Obj(BarePool), Obj(PoolWithoutTokens), Obj(PoolWithTokens(0)),
          Obj(PoolWithTokens(1))}
    [] op = "getStats" -> {Obj([networks_count |-> 10])}
    [] op = "search" -> {Obj([tokens |-> <<Token(1)>>])}
    [] OTHER -> {}

\* a success status with no body, or with an empty one
EmptyBodies == {Undefined, Str("")}

ErrorStatuses == {400, 404, 429, 500}
ErrorBodies == {Obj([error |-> "upstream detail"]), Str("")}
TransportMessages == {"Network Error"}

\* every way the upstream can settle one request of the operation
Upstream(op) ==
  {[kind |-> "ok", status |-> 200, data |-> d] :
     d \in WellFormedBodies(op) \cup PartialBodies(op) \cup EmptyBodies}
  \cup {[kind |-> "http", status |-> st, data |-> d] :
          st \in ErrorStatuses, d \in ErrorBodies}
  \cup {[kind |-> "transport", message |-> m] : m \in TransportMessages}

Failed(settled) == settled.kind # "ok"

\* the wall clock at two moments the formatting may run at
Clock(k) ==
  IF k = 1
  THEN [year |-> 2025, month |-> 3, day |-> 12, hours |-> 12, minutes |-> 34,
        seconds |-> 56, milliseconds |-> 789]
  ELSE [year |-> 2026, month |-> 11, day |-> 30, hours |-> 0, minutes |-> 0,
        seconds |-> 5, milliseconds |-> 0]

Clocks == {Clock(1), Clock(2)}

ModuleOps ==
  {"getNetworks", "getNetworkDexes", "getTopPools", "getNetworkPools", "getDexPools",
   "getPoolDetails", "getTokenDetails", "search", "getStats"}

HandlerOps == ModuleOps \ {"getStats"}

PoolListingOps == {"getTopPools", "getNetworkPools", "getDexPools"}

Settlements == UNION {Upstream(op) : op \in ModuleOps}

\* settings providers: each key is set, or reads as null or as undefined
UrlSettings == {Null, Str("https://proxy.example")}
KeySettings == {Null, Undefined, Str("test-api-key")}
Runtimes ==
  {[DEXPAPRIKA_API_URL |-> u, DEXPAPRIKA_API_KEY |-> k] :
     u \in UrlSettings, k \in KeySettings}

\* the callers' parameter objects
PagingParams ==
  {p @@ l : p \in {NoFields, [page |-> 2]}, l \in {NoFields, [limit |-> 25]}}

SortingParams ==
  {o @@ d : o \in {NoFields, [orderBy |-> "created_at"], [orderBy |-> "market_cap"]},
            d \in {NoFields, [sort |-> "asc"]}}

Queries == {"", "  ", "ab", " ab ", "uni", "uniswap v3"}

ParamsOf(op) ==
  CASE op = "getNetworks" -> {NoFields}
    [] op = "getStats" -> {NoFields}
    [] op = "getNetworkDexes" -> {[network |-> "ethereum"] @@ p : p \in PagingParams}
    [] op = "getTopPools" -> {p @@ q : p \in PagingParams, q \in SortingParams}
    [] op = "getNetworkPools" ->
         {[network |-> "ethereum"] @@ p @@ q : p \in PagingParams, q \in SortingParams}
    [] op = "getDexPools" ->
         {[network |-> "ethereum", dex |-> "uniswap_v3"] @@ p @@ q :
            p \in PagingParams, q \in SortingParams}
    [] op = "getPoolDetails" ->
         {[network |-> "ethereum", poolAddress |-> "0xpool"] @@ i :
            i \in {NoFields, [inversed |-> TRUE]}}
    [] op = "getTokenDetails" -> {[network |-> "ethereum", tokenAddress |-> "0xtoken"]}
    [] op = "search" -> {NoFields} \cup {[query |-> q] : q \in Queries}

(***************************************************************************)
(* Invocations                                                             *)
(***************************************************************************)
Bool(b) == [t |-> "boolean", v |-> b]

CallbackKinds == {"none", "returns", "throws"}
CallbackErrorMessage == "callback failed"
StateErrorMessage == "state unavailable"

Idle == [pc |-> "idle"]

\* the frame of a fresh invocation
Begin(impl, op, params, runtime, callback) ==
  [pc |-> "running", impl |-> impl, op |-> op, params |-> params, runtime |-> runtime,
   callback |-> callback, getSettingCalls |-> 0, clients |-> <<>>, requests |-> <<>>,
   settled |-> <<>>, callbacks |-> <<>>, outcome |-> [kind |-> "pending"]]

Resolved(c, value) ==
  [c EXCEPT !.pc = "done", !.outcome = [kind |-> "resolved", value |-> value]]

Rejected(c, error) ==
  [c EXCEPT !.pc = "done", !.outcome = [kind |-> "rejected", error |-> error]]

\* issue a request and suspend on it
Send(c, request, pc) == [c EXCEPT !.pc = pc, !.requests = Append(@, request)]

\* the awaited request has settled
Settle(c, settled) == [c EXCEPT !.settled = Append(@, settled)]

\* the frame after the configuration was read and the client created
Configured(c, client) == [c EXCEPT !.getSettingCalls = @ + 2, !.clients = Append(@, client)]

(***************************************************************************)
(* actions[op].execute(params, runtime)                                    *)
(***************************************************************************)
\* the invocation from its call up to the awaited client.get
ExecuteStarted(op, params, runtime) ==
  LET config == executeConfig(runtime)
      client == createApiClient(config.DEXPAPRIKA_API_URL, config.DEXPAPRIKA_API_KEY)
      r == actionsRequest(op, params)
      c == Configured(Begin("registry", op, params, runtime, "none"), client)
  IN Send(c, clientGet(client, r.url, r.params), "awaitClient")

\* the invocation from the settled client.get to its return or throw
ExecuteSettled(frame, settled, now) ==
  LET c == Settle(frame, settled)
      r == actionsFormat(c.op, c.params, settled.data)
  IN IF Failed(settled) THEN Rejected(c, actions_catch(AxiosError(settled)))
     ELSE IF r.ok THEN Resolved(c, stamped(r.value, now))
     ELSE Rejected(c, actions_catch(r.error))

ExecuteStart(i, op, params, runtime) ==
  /\ calls[i].pc = "idle"
  /\ op \in actionNames
  /\ calls' = [calls EXCEPT ![i] = ExecuteStarted(op, params, runtime)]

ExecuteSettle(i, settled, now) ==
  /\ calls[i].pc = "awaitClient"
  /\ calls[i].impl = "registry"
  /\ settled \in Upstream(calls[i].op)
  /\ calls' = [calls EXCEPT ![i] = ExecuteSettled(calls[i], settled, now)]

(***************************************************************************)
(* getNetworks .. getStats of the operations module, except search         *)
(***************************************************************************)
ModuleStarted(op, params, runtime) ==
  LET c0 == Begin("module", op, params, runtime, "none")
      cfg == getConfig(runtime)
  IN IF ~cfg.ok
     THEN Rejected([c0 EXCEPT !.getSettingCalls = 2], module_catch(Error(cfg.message)))
     ELSE LET client == createApiClient(cfg.config.DEXPAPRIKA_API_URL,
                                        cfg.config.DEXPAPRIKA_API_KEY)
              r == moduleRequest(op, params)
          IN Send(Configured(c0, client), clientGet(client, r.url, r.params),
                  "awaitClient")

ModuleSettled(frame, settled, now) ==
  LET c == Settle(frame, settled)
      r == moduleFormat(c.op, c.params, settled.data)
  IN IF Failed(settled) THEN Rejected(c, module_catch(AxiosError(settled)))
     ELSE IF r.ok THEN Resolved(c, stamped(r.value, now))
     ELSE Rejected(c, module_catch(r.error))

ModuleStart(i, op, params, runtime) ==
  /\ calls[i].pc = "idle"
  /\ op \in ModuleOps \ {"search"}
  /\ calls' = [calls EXCEPT ![i] = ModuleStarted(op, params, runtime)]

ModuleSettle(i, settled, now) ==
  /\ calls[i].pc = "awaitClient"
  /\ calls[i].impl = "module"
  /\ calls[i].op # "search"
  /\ settled \in Upstream(calls[i].op)
  /\ calls' = [calls EXCEPT ![i] = ModuleSettled(calls[i], settled, now)]

(***************************************************************************)
(* getPoolDetails and search of the first copy of the operations module    *)
(***************************************************************************)
FirstCopyOps == {"getPoolDetails", "search"}

FirstCopyStarted(op, params, runtime) ==
  LET c0 == Begin("firstCopy", op, params, runtime, "none")
      cfg == getConfig(runtime)
  IN IF ~cfg.ok
     THEN Rejected([c0 EXCEPT !.getSettingCalls = 2], module_catch(Error(cfg.message)))
     ELSE LET client == createApiClient(cfg.config.DEXPAPRIKA_API_URL,
                                        cfg.config.DEXPAPRIKA_API_KEY)
              r == firstCopyRequest(op, params)
          IN Send(Configured(c0, client), clientGet(client, r.url, r.params),
                  "awaitClient")

FirstCopySettled(frame, settled, now) ==
  LET c == Settle(frame, settled)
      r == firstCopyFormat(c.op, c.params, settled.data)
  IN IF Failed(settled) THEN Rejected(c, module_catch(AxiosError(settled)))
     ELSE IF r.ok THEN Resolved(c, stamped(r.value, now))
     ELSE Rejected(c, module_catch(r.error))

FirstCopyStart(i, op, params, runtime) ==
  /\ calls[i].pc = "idle"
  /\ op \in FirstCopyOps
  /\ calls' = [calls EXCEPT ![i] = FirstCopyStarted(op, params, runtime)]

FirstCopySettle(i, settled, now) ==
  /\ calls[i].pc = "awaitClient"
  /\ calls[i].impl = "firstCopy"
  /\ settled \in Upstream(calls[i].op)
  /\ calls' = [calls EXCEPT ![i] = FirstCopySettled(calls[i], settled, now)]

(***************************************************************************)
(* search of the operations module: validation, the direct call, the       *)
(* client call, and the fallback call after a failed client call           *)
(***************************************************************************)
SearchStarted(params, runtime) ==
  LET c0 == Begin("module", "search", params, runtime, "none")
      valid == search_validate(params)
      cfg == getConfig(runtime)
  IN IF ~valid.ok THEN Rejected(c0, search_catch(valid.error))
     ELSE IF ~cfg.ok
     THEN Rejected([c0 EXCEPT !.getSettingCalls = 2], search_catch(Error(cfg.message)))
     ELSE LET client == createApiClient(cfg.config.DEXPAPRIKA_API_URL,
                                        cfg.config.DEXPAPRIKA_API_KEY)
          IN Send(Configured(c0, client),
                  axiosGet(search_directUrl(cfg.config, params)), "awaitDirect")

\* the direct call is only logged; the client call follows whatever it gave
SearchDirectContinued(frame, settled) ==
  LET c == Settle(frame, settled)
      r == search_request(c.params)
  IN Send(c, clientGet(c.clients[1], r.url, r.params), "awaitClient")

SearchClientContinued(frame, settled, now) ==
  LET c == Settle(frame, settled)
      r == search_format(c.params, settled.data)
      cfg == getConfig(c.runtime)
  IN IF Failed(settled)
     THEN Send(c, axiosGet(search_directUrl(cfg.config, c.params)), "awaitFallback")
     ELSE IF r.ok THEN Resolved(c, stamped(r.value, now))
     ELSE Rejected(c, search_catch(r.error))

\* a successful fallback is returned as it came; a failed one rethrows the
\* error of the client call
SearchFallbackContinued(frame, settled) ==
  LET c == Settle(frame, settled)
      innerError == AxiosError(frame.settled[2])
  IN IF Failed(settled) THEN Rejected(c, search_catch(innerError))
     ELSE Resolved(c, settled.data)

SearchStart(i, params, runtime) ==
  /\ calls[i].pc = "idle"
  /\ calls' = [calls EXCEPT ![i] = SearchStarted(params, runtime)]

SearchDirectSettled(i, settled) ==
  /\ calls[i].pc = "awaitDirect"
  /\ settled \in Upstream("search")
  /\ calls' = [calls EXCEPT ![i] = SearchDirectContinued(calls[i], settled)]

SearchClientSettled(i, settled, now) ==
  /\ calls[i].pc = "awaitClient"
  /\ calls[i].impl = "module"
  /\ calls[i].op = "search"
  /\ settled \in Upstream("search")
  /\ calls' = [calls EXCEPT ![i] = SearchClientContinued(calls[i], settled, now)]

SearchFallbackSettled(i, settled) ==
  /\ calls[i].pc = "awaitFallback"
  /\ settled \in Upstream("search")
  /\ calls' = [calls EXCEPT ![i] = SearchFallbackContinued(calls[i], settled)]

(***************************************************************************)
(* GET_*.handler(runtime, message, state, _options, callback)              *)
(***************************************************************************)
\* the value the handler resolves with once the callback has returned:
\* GET_NETWORKS returns what the callback returned, the others a boolean
HandlerResult(c, flag) == IF c.op = "getNetworks" THEN Undefined ELSE Bool(flag)

\* the catch block: build the error payload, hand it to the callback if there
\* is one, return false; a throwing callback escapes the handler
HandlerCatch(c, error) ==
  LET payload == handlerCatch(c.op, error)
      called == [c EXCEPT !.callbacks = Append(@, payload)]
  IN CASE c.callback = "none" -> Resolved(c, HandlerResult(c, FALSE))
       [] c.callback = "returns" -> Resolved(called, HandlerResult(c, FALSE))
       [] c.callback = "throws" -> Rejected(called, [message |-> CallbackErrorMessage])

\* the end of the try block: hand the success payload to the callback if there
\* is one, return true; a throwing callback lands in the catch block
HandlerDeliver(c, payload) ==
  LET called == [c EXCEPT !.callbacks = Append(@, payload)]
  IN CASE c.callback = "none" -> Resolved(c, HandlerResult(c, TRUE))
       [] c.callback = "returns" -> Resolved(called, HandlerResult(c, TRUE))
       [] c.callback = "throws" -> HandlerCatch(called, Error(CallbackErrorMessage))

HandlerStarted(op, content, runtime, callback) ==
  [Begin("handler", op, content, runtime, callback) EXCEPT !.pc = "awaitState"]
  @@ [validated |-> validate(op, content)]

\* composeState / updateRecentMessageState settled: a rejection escapes the
\* handler (the await is outside the try block); otherwise the try block runs
\* up to the request
HandlerStateContinued(c, ok) ==
  LET cfg == getConfig(c.runtime)
  IN IF ~ok THEN Rejected(c, [message |-> StateErrorMessage])
     ELSE IF ~cfg.ok
     THEN HandlerCatch([c EXCEPT !.getSettingCalls = 2], Error(cfg.message))
     ELSE LET client == createApiClient(cfg.config.DEXPAPRIKA_API_URL,
                                        cfg.config.DEXPAPRIKA_API_KEY)
              r == handlerRequest(c.op, c.params)
          IN Send(Configured(c, client), clientGet(client, r.url, r.params),
                  "awaitClient")

\* GET_NETWORKS: configuration (config.ts) and client before the try block,
\* no state to await, the callback is required
GetNetworksHandlerStarted(content, context, callback) ==
  LET config == configGetConfig(context)
      client == createApiClient(config.DEXPAPRIKA_API_URL, config.DEXPAPRIKA_API_KEY)
      r == GET_NETWORKS_request(content)
      c == Configured(Begin("handler", "getNetworks", content, context, callback), client)
           @@ [validated |-> validate("getNetworks", content)]
  IN Send(c, clientGet(client, r.url, r.params), "awaitClient")

HandlerSettled(frame, settled, now) ==
  LET c == Settle(frame, settled)
      r == handlerFormat(c.op, c.params, settled.data)
  IN IF Failed(settled) THEN HandlerCatch(c, AxiosError(settled))
     ELSE IF r.ok THEN HandlerDeliver(c, handlerStamped(c.op, r.value, now))
     ELSE HandlerCatch(c, r.error)

\* every handler but GET_NETWORKS first awaits the runtime's state
HandlerStart(i, op, content, runtime, callback) ==
  /\ calls[i].pc = "idle"
  /\ op \in HandlerOps \ {"getNetworks"}
  /\ calls' = [calls EXCEPT ![i] = HandlerStarted(op, content, runtime, callback)]

HandlerStateSettled(i, ok) ==
  /\ calls[i].pc = "awaitState"
  /\ calls' = [calls EXCEPT ![i] = HandlerStateContinued(calls[i], ok)]

GetNetworksHandlerStart(i, content, context, callback) ==
  /\ calls[i].pc = "idle"
  /\ callback # "none"
  /\ calls' = [calls EXCEPT ![i] = GetNetworksHandlerStarted(content, context, callback)]

HandlerSettle(i, settled, now) ==
  /\ calls[i].pc = "awaitClient"
  /\ calls[i].impl = "handler"
  /\ settled \in Upstream(calls[i].op)
  /\ calls' = [calls EXCEPT ![i] = HandlerSettled(calls[i], settled, now)]

(***************************************************************************)
(* Specification                                                           *)
(***************************************************************************)
CallIds == {1}

Init == calls = [i \in CallIds |-> Idle]

Next ==
  \/ \E i \in DOMAIN calls : \E op \in ModuleOps : \E params \in ParamsOf(op) :
       \E runtime \in Runtimes : ExecuteStart(i, op, params, runtime)
  \/ \E i \in DOMAIN calls : \E settled \in Settlements : \E now \in Clocks :
       ExecuteSettle(i, settled, now)
  \/ \E i \in DOMAIN calls : \E op \in ModuleOps : \E params \in ParamsOf(op) :
       \E runtime \in Runtimes : ModuleStart(i, op, params, runtime)
  \/ \E i \in DOMAIN calls : \E settled \in Settlements : \E now \in Clocks :
       ModuleSettle(i, settled, now)
  \/ \E i \in DOMAIN calls : \E op \in FirstCopyOps : \E params \in ParamsOf(op) :
       \E runtime \in Runtimes : FirstCopyStart(i, op, params, runtime)
  \/ \E i \in DOMAIN calls : \E settled \in Settlements : \E now \in Clocks :
       FirstCopySettle(i, settled, now)
  \/ \E i \in DOMAIN calls : \E params \in ParamsOf("search") :
       \E runtime \in Runtimes : SearchStart(i, params, runtime)
  \/ \E i \in DOMAIN calls : \E settled \in Upstream("search") :
       SearchDirectSettled(i, settled)
  \/ \E i \in DOMAIN calls : \E settled \in Upstream("search") : \E now \in Clocks :
       SearchClientSettled(i, settled, now)
  \/ \E i \in DOMAIN calls : \E settled \in Upstream("search") :
       SearchFallbackSettled(i, settled)
  \/ \E i \in DOMAIN calls : \E op \in HandlerOps : \E content \in ParamsOf(op) :
       \E runtime \in Runtimes : \E callback \in CallbackKinds :
         HandlerStart(i, op, content, runtime, callback)
  \/ \E i \in DOMAIN calls : \E ok \in BOOLEAN : HandlerStateSettled(i, ok)
  \/ \E i \in DOMAIN calls : \E content \in ParamsOf("getNetworks") :
       \E context \in Runtimes : \E callback \in CallbackKinds :
         GetNetworksHandlerStart(i, content, context, callback)
  \/ \E i \in DOMAIN calls : \E settled \in Settlements : \E now \in Clocks :
       HandlerSettle(i, settled, now)

Spec == Init /\ [][Next]_vars

(***************************************************************************)
(* Reading a finished invocation                                           *)
(***************************************************************************)
Finished(c) == c.pc = "done"

\* the configuration was accepted and a client built: nothing in the inputs
\* stopped the invocation before its request
InputsAccepted(c) == c.pc # "idle" /\ c.clients # <<>>

LastCallback(c) == c.callbacks[Len(c.callbacks)]

\* the invocation ended the way a caller takes for a success: an operation
\* resolved; a handler returned true, or (GET_NETWORKS, which returns the
\* callback's result) ended on its success payload
Succeeded(c) ==
  /\ Finished(c)
  /\ c.outcome.kind = "resolved"
  /\ c.impl = "handler" =>
       IF c.op = "getNetworks"
       THEN c.callbacks # <<>> /\ Has(LastCallback(c), "headerLines")
       ELSE c.outcome.value = Bool(TRUE)

\* the message a caller gets from an invocation that did not succeed
FailureMessage(c) ==
  IF c.outcome.kind = "rejected" THEN c.outcome.error.message
  ELSE IF c.callbacks # <<>> /\ Has(LastCallback(c), "text") THEN LastCallback(c).text
  ELSE ""

\* the positions of the requests the invocation made through its client
ClientRequests(c) == {k \in DOMAIN c.settled : c.requests[k].via = "client"}

(***************************************************************************)
(* C1: one invocation issues exactly one outbound HTTP GET, whatever the   *)
(* upstream answers: never a second request, and never zero once the       *)
(* inputs were accepted.                                                   *)
(***************************************************************************)
ExactlyOneRequest ==
  \A i \in DOMAIN calls :
    calls[i].pc # "idle" =>
      /\ Len(calls[i].requests) <= 1
      /\ Finished(calls[i]) /\ InputsAccepted(calls[i]) => Len(calls[i].requests) = 1

(***************************************************************************)
(* C2: a search whose query is empty, blank after trimming or shorter than *)
(* three characters after trimming issues no request and ends in a         *)
(* rejection.                                                              *)
(***************************************************************************)
RejectedQuery(params) == Has(params, "query") /\ Len(trim(params.query)) < 3

ShortQueryIssuesNoRequest ==
  \A i \in DOMAIN calls :
    calls[i].pc # "idle" /\ calls[i].op = "search" /\ RejectedQuery(calls[i].params) =>
      /\ calls[i].requests = <<>>
      /\ Finished(calls[i]) => ~Succeeded(calls[i])

(***************************************************************************)
(* C3: an invocation whose upstream request failed (HTTP error status or   *)
(* transport failure) never ends in a success, and its failure carries a   *)
(* message (a handler called without a callback has nowhere to put one).   *)
(***************************************************************************)
FailedCallNeverSucceeds ==
  \A i \in DOMAIN calls :
    (/\ Finished(calls[i])
     /\ \E k \in ClientRequests(calls[i]) : Failed(calls[i].settled[k]))
    => /\ ~Succeeded(calls[i])
       /\ \/ (calls[i].impl = "handler" /\ calls[i].callback = "none")
          \/ FailureMessage(calls[i]) # ""

\* the message holds one of the phrases (the phrases list the capitalisations)
Says(message, phrases) == \E phrase \in phrases : Includes(message, phrase)

\* the settlement of the request the invocation made through its client
ClientSettlements(c) == {c.settled[k] : k \in ClientRequests(c)}

\* a failure message can reach the caller: an operation rejects with it, a
\* handler hands it to a callback that returns
Reports(c) == Finished(c) /\ (c.impl = "handler" => c.callback = "returns")

\* the failure carries the HTTP status: on the rejected error, or in the
\* content of the handler's error payload
CarriesStatus(c, status) ==
  IF c.outcome.kind = "rejected"
  THEN Has(c.outcome.error, "status") /\ c.outcome.error.status = status
  ELSE /\ c.callbacks # <<>>
       /\ Has(LastCallback(c).content, "statusCode")
       /\ LastCallback(c).content.statusCode = status

(***************************************************************************)
(* C4: an operation whose request was answered 200 with a well-formed body *)
(* resolves with an envelope {formatted_response, raw_data} whose raw_data *)
(* equals that body unchanged.                                             *)
(***************************************************************************)
RawDataIsUpstreamBody ==
  \A i \in DOMAIN calls :
    Finished(calls[i]) /\ calls[i].impl \in {"registry", "module", "firstCopy"} =>
      \A settled \in ClientSettlements(calls[i]) :
        settled.kind = "ok" /\ settled.data \in WellFormedBodies(calls[i].op) =>
          /\ calls[i].outcome.kind = "resolved"
          /\ HasProp(calls[i].outcome.value, "formatted_response")
          /\ HasProp(calls[i].outcome.value, "raw_data")
          /\ calls[i].outcome.value.v.raw_data = settled.data

(***************************************************************************)
(* C5: every request of a pool-listing operation (getTopPools,             *)
(* getNetworkPools, getDexPools) carries the four query parameters page,   *)
(* limit, order_by and sort; each one the caller omitted has its default   *)
(* (0, 10, volume_usd, desc) and each one the caller supplied has the      *)
(* caller's value.                                                         *)
(***************************************************************************)
ExpectedListingQuery(params) ==
  [page |-> IF Has(params, "page") THEN params.page ELSE 0,
   limit |-> IF Has(params, "limit") THEN params.limit ELSE 10,
   order_by |-> IF Has(params, "orderBy") THEN params.orderBy ELSE "volume_usd",
   sort |-> IF Has(params, "sort") THEN params.sort ELSE "desc"]

PoolListingDefaults ==
  \A i \in DOMAIN calls :
    calls[i].pc # "idle" /\ calls[i].op \in PoolListingOps =>
      \A k \in DOMAIN calls[i].requests :
        calls[i].requests[k].params = ExpectedListingQuery(calls[i].params)

\* a getNetworkPools call of the operations module that supplied page and
\* sort, omitted limit and orderBy, and has sent its request
PoolListingDefaultsWitness ==
  \E i \in DOMAIN calls :
    /\ calls[i].pc = "awaitClient"
    /\ calls[i].impl = "module"
    /\ calls[i].op = "getNetworkPools"
    /\ Has(calls[i].params, "page") /\ Has(calls[i].params, "sort")
    /\ ~Has(calls[i].params, "limit") /\ ~Has(calls[i].params, "orderBy")
    /\ Len(calls[i].requests) = 1
    /\ calls[i].requests[1].params =
         [page |-> 2, limit |-> 10, order_by |-> "volume_usd", sort |-> "asc"]

(***************************************************************************)
(* C6: the plugin's registry holds an action for each of the nine names,   *)
(* and every registered action has a name, a description, a parameters     *)
(* schema and an execute function.                                         *)
(***************************************************************************)
NineNames ==
  {"getNetworks", "getNetworkDexes", "getTopPools", "getNetworkPools", "getDexPools",
   "getPoolDetails", "getTokenDetails", "search", "getStats"}

RegistryHasNineActions ==
  \A i \in DOMAIN calls :
    /\ \A name \in NineNames :
         \E k \in DOMAIN dexpaprikaPlugin.actions : dexpaprikaPlugin.actions[k].name = name
    /\ \A k \in DOMAIN dexpaprikaPlugin.actions :
         {"name", "description", "parameters", "execute"}
           \subseteq DOMAIN dexpaprikaPlugin.actions[k]

(***************************************************************************)
(* C7: a getNetworkDexes call answered with HTTP 404 ends in a failure     *)
(* whose message contains "not found" and which carries status 404.        *)
(***************************************************************************)
NetworkDexesNotFound ==
  \A i \in DOMAIN calls :
    Reports(calls[i]) /\ calls[i].op = "getNetworkDexes" =>
      \A settled \in ClientSettlements(calls[i]) :
        settled.kind = "http" /\ settled.status = 404 =>
          /\ ~Succeeded(calls[i])
          /\ Says(FailureMessage(calls[i]), {"not found", "Not found", "Not Found"})
          /\ CarriesStatus(calls[i], 404)

(***************************************************************************)
(* C8: an HTTP error is classified by its status: 429 gives the rate limit *)
(* message, 400 on search the search-tailored message, and every other     *)
(* status except 404 the generic "API error: {status} - {message}".        *)
(***************************************************************************)
Classified(c, settled) ==
  LET message == FailureMessage(c)
  IN CASE settled.status = 429 ->
            /\ Says(message, {"rate limit exceeded", "Rate limit exceeded"})
            /\ Says(message, {"try again later", "Try again later"})
       [] settled.status = 400 /\ c.op = "search" ->
            Says(message, {"more specific query", "longer"})
       [] settled.status = 404 -> TRUE
       [] OTHER ->
            Includes(message, "API error: " \o ToString(settled.status) \o " - ")

HttpErrorsClassified ==
  \A i \in DOMAIN calls :
    Reports(calls[i]) =>
      \A settled \in ClientSettlements(calls[i]) :
        settled.kind = "http" => ~Succeeded(calls[i]) /\ Classified(calls[i], settled)

(***************************************************************************)
(* C9: a request that failed without any HTTP response is surfaced as      *)
(* "unexpected error: {message}", never as an API error with an absent     *)
(* status.                                                                 *)
(***************************************************************************)
TransportFailureIsUnexpected ==
  \A i \in DOMAIN calls :
    Reports(calls[i]) =>
      \A settled \in ClientSettlements(calls[i]) :
        settled.kind = "transport" =>
          /\ ~Succeeded(calls[i])
          /\ Says(FailureMessage(calls[i]),
                  {"unexpected error: " \o settled.message,
                   "Unexpected error: " \o settled.message})
          /\ ~Includes(FailureMessage(calls[i]), "API error: undefined")

(***************************************************************************)
(* C10: a success status with a missing or empty body ends in an error     *)
(* ("no data received"); the invocation never succeeds in that case.       *)
(***************************************************************************)
EmptyBodyIsAnError ==
  \A i \in DOMAIN calls :
    Finished(calls[i]) =>
      \A settled \in ClientSettlements(calls[i]) :
        settled.kind = "ok" /\ settled.data \in EmptyBodies =>
          /\ ~Succeeded(calls[i])
          /\ Reports(calls[i]) =>
               Says(FailureMessage(calls[i]), {"no data received", "No data received"})

(***************************************************************************)
(* C11: both settings are optional: whatever the provider returns for      *)
(* DEXPAPRIKA_API_URL and DEXPAPRIKA_API_KEY (a value, null or undefined), *)
(* the configuration resolves without error; the base URL is the           *)
(* configured one when set and https://api.dexpaprika.com when unset, and  *)
(* an absent key means unauthenticated calls.                              *)
(***************************************************************************)
ConfiguredUrl(runtime) ==
  IF runtime.DEXPAPRIKA_API_URL.t = "string" /\ runtime.DEXPAPRIKA_API_URL.v # ""
  THEN runtime.DEXPAPRIKA_API_URL.v ELSE "https://api.dexpaprika.com"

KeyConfigured(runtime) ==
  runtime.DEXPAPRIKA_API_KEY.t = "string" /\ runtime.DEXPAPRIKA_API_KEY.v # ""

ConfigurationAlwaysResolves ==
  \A i \in DOMAIN calls :
    calls[i].pc # "idle" /\ calls[i].getSettingCalls > 0 =>
      /\ Len(calls[i].clients) = 1
      /\ calls[i].clients[1].baseURL = ConfiguredUrl(calls[i].runtime)
      /\ ~KeyConfigured(calls[i].runtime) => calls[i].clients[1].interceptors = <<>>

(***************************************************************************)
(* C12: every outbound request carries Authorization: Bearer <apiKey> if   *)
(* and only if a DEXPAPRIKA_API_KEY is configured.                         *)
(***************************************************************************)
AuthorizationIffKey ==
  \A i \in DOMAIN calls :
    calls[i].pc # "idle" =>
      \A k \in DOMAIN calls[i].requests :
        IF KeyConfigured(calls[i].runtime)
        THEN /\ Has(calls[i].requests[k].headers, "Authorization")
             /\ calls[i].requests[k].headers.Authorization
                  = "Bearer " \o calls[i].runtime.DEXPAPRIKA_API_KEY.v
        ELSE ~Has(calls[i].requests[k].headers, "Authorization")

\* the body the invocation's last request settled with
LastBody(c) == c.settled[Len(c.settled)].data

\* the pairs (upstream pool, rendered 24h price change) of a successful
\* invocation that renders pools with a price change
PriceChangeRenderings(c) ==
  IF ~Succeeded(c) \/ c.settled = <<>> THEN {}
  ELSE IF c.impl = "handler"
  THEN IF c.callbacks = <<>> THEN {}
       ELSE IF c.op \in PoolListingOps
       THEN {<<LastBody(c).v.pools[k], LastCallback(c).content.pools[k].price_change_24h>> :
               k \in DOMAIN LastCallback(c).content.pools}
       ELSE IF c.op = "getPoolDetails"
       THEN {<<LastBody(c).v, LastCallback(c).content.formatted_response.price_change_24h>>}
       ELSE {}
  ELSE IF c.impl = "registry" /\ c.op \in PoolListingOps
  THEN {<<LastBody(c).v.pools[k],
          c.outcome.value.v.formatted_response.pools[k].price_change_24h>> :
          k \in DOMAIN c.outcome.value.v.formatted_response.pools}
  ELSE IF c.op = "getPoolDetails" /\ HasProp(c.outcome.value, "formatted_response")
  THEN {<<LastBody(c).v, c.outcome.value.v.formatted_response.price_change_24h>>}
  ELSE {}

(***************************************************************************)
(* C13: wherever a pool's 24-hour price change is rendered, an upstream    *)
(* value of zero reads "0.00%" and an absent value reads "N/A": zero is    *)
(* never shown as "N/A" and absence is never shown as a number or "NaN%".  *)
(***************************************************************************)
PriceChangeZeroAndAbsent ==
  \A i \in DOMAIN calls :
    calls[i].pc # "idle" =>
      \A r \in PriceChangeRenderings(calls[i]) :
        IF ~Has(r[1], "last_price_change_usd_24h") THEN r[2] = "N/A"
        ELSE IF r[1].last_price_change_usd_24h = 0 THEN r[2] = "0.00%"
        ELSE r[2] # "N/A"

\* the upstream pool has every field but a second token: tokens is absent
\* or shorter than 2
FewerThanTwoTokens(data) ==
  data.t = "object" /\ Has(data.v, "id") /\ Has(data.v, "transactions")
  /\ (Has(data.v, "tokens") => Len(data.v.tokens) < 2)

\* the title a successful getPoolDetails rendered for the pool
RenderedPoolTitle(c) ==
  IF c.impl = "handler" THEN LastCallback(c).content.formatted_response.title
  ELSE c.outcome.value.v.formatted_response.title

(***************************************************************************)
(* C14: getPoolDetails on an upstream pool whose tokens array has fewer    *)
(* than two entries, or none at all, completes successfully, and its       *)
(* rendering names no token "undefined": a missing slot shows a fallback.  *)
(***************************************************************************)
PoolDetailsToleratesMissingTokens ==
  \A i \in DOMAIN calls :
    /\ Reports(calls[i])
    /\ calls[i].op = "getPoolDetails"
    /\ calls[i].settled # <<>>
    /\ calls[i].settled[Len(calls[i].settled)].kind = "ok"
    /\ FewerThanTwoTokens(LastBody(calls[i]))
    => /\ Succeeded(calls[i])
       /\ ~Includes(RenderedPoolTitle(calls[i]), "undefined")

ListOps == PoolListingOps \cup {"getNetworkDexes"}

\* the field of the upstream body that holds the operation's list
ListField(op) == IF op = "getNetworkDexes" THEN "dexes" ELSE "pools"

\* the upstream answered the list operation with a page that has no entries
AnsweredEmptyList(c) ==
  /\ c.op \in ListOps
  /\ c.settled # <<>>
  /\ c.settled[Len(c.settled)].kind = "ok"
  /\ LastBody(c).t = "object"
  /\ Has(LastBody(c).v, ListField(c.op))
  /\ LastBody(c).v[ListField(c.op)] = <<>>

\* the list in what a successful list operation hands to its caller
RenderedList(c) ==
  IF c.impl = "handler" THEN LastCallback(c).content[ListField(c.op)]
  ELSE IF HasProp(c.outcome.value, "formatted_response")
  THEN c.outcome.value.v.formatted_response[ListField(c.op)]
  ELSE c.outcome.value.v[ListField(c.op)]

(***************************************************************************)
(* C15: a list operation (getTopPools, getNetworkPools, getDexPools,       *)
(* getNetworkDexes) whose upstream page holds an empty pools/dexes array   *)
(* formats it and ends successfully, and the list it hands over is empty.  *)
(***************************************************************************)
EmptyListIsFormatted ==
  \A i \in DOMAIN calls :
    Reports(calls[i]) /\ AnsweredEmptyList(calls[i]) =>
      /\ Succeeded(calls[i])
      /\ RenderedList(calls[i]) = <<>>

\* each family has formatted an empty page of a list operation
EmptyListIsFormattedWitness ==
  \E i \in DOMAIN calls :
    /\ Reports(calls[i]) /\ AnsweredEmptyList(calls[i])
    /\ calls[i].impl = "module" /\ calls[i].op = "getTopPools"
    /\ Succeeded(calls[i])
    /\ calls[i].outcome.value.v.formatted_response.total_pools = 0

\* a handler of a list operation delivered its text for an upstream page
DeliveredPage(c) ==
  /\ Finished(c) /\ c.impl = "handler" /\ c.op \in ListOps
  /\ c.callbacks # <<>> /\ Has(c.callbacks[1], "headerLines")
  /\ c.settled # <<>> /\ HasProp(LastBody(c), "page_info")

\* some header line of the text contains the phrase
HeaderSays(payload, phrase) ==
  \E k \in DOMAIN payload.headerLines : Includes(payload.headerLines[k], phrase)

(***************************************************************************)
(* C16: the pagination text shows the upstream's 0-indexed page as a       *)
(* 1-indexed page: for a page_info with page = p and total_pages = t the   *)
(* text of a listing reads "Page (p+1) of t".                              *)
(***************************************************************************)
PaginationIsOneIndexed ==
  \A i \in DOMAIN calls :
    calls[i].pc # "idle" /\ DeliveredPage(calls[i]) =>
      HeaderSays(calls[i].callbacks[1],
                 "Page " \o ToString(LastBody(calls[i]).v.page_info.page + 1) \o " of "
                 \o ToString(LastBody(calls[i]).v.page_info.total_pages))

\* page 2 of 3 pages was delivered as "Page 3 of 3"
PaginationIsOneIndexedWitness ==
  \E i \in DOMAIN calls :
    /\ calls[i].pc # "idle" /\ DeliveredPage(calls[i])
    /\ LastBody(calls[i]).v.page_info.page = 2
    /\ LastBody(calls[i]).v.page_info.total_pages = 3
    /\ HeaderSays(calls[i].callbacks[1], "Page 3 of 3")

\* what the invocation was given for the listing's order: the caller's
\* orderBy and sort, where supplied
SuppliedOrder(params) ==
  (IF Has(params, "orderBy") THEN [order_by |-> params.orderBy] ELSE NoFields)
  @@ (IF Has(params, "sort") THEN [sort |-> params.sort] ELSE NoFields)

(***************************************************************************)
(* C17: no pool-listing operation checks orderBy or sort locally: whatever *)
(* the caller supplies, also outside the documented enumerations, no       *)
(* validation refuses the invocation, and its request carries the values   *)
(* unchanged as order_by and sort.                                         *)
(***************************************************************************)
OrderIsForwardedUnvalidated ==
  \A i \in DOMAIN calls :
    calls[i].pc # "idle" /\ calls[i].op \in PoolListingOps =>
      /\ calls[i].impl = "handler" => calls[i].validated
      /\ \A k \in DOMAIN calls[i].requests :
           \A f \in DOMAIN SuppliedOrder(calls[i].params) :
             calls[i].requests[k].params[f] = SuppliedOrder(calls[i].params)[f]

(***************************************************************************)
(* Two invocations running concurrently                                    *)
(***************************************************************************)
PairIds == {1, 2}

PairOps == {"getNetworks", "getNetworkPools", "search"}

PairParams(op) ==
  CASE op = "getNetworks" -> {NoFields}
    [] op = "getNetworkPools" -> {[network |-> "ethereum"]}
    [] op = "search" -> {[query |-> "uni"]}

PairRuntimes ==
  {[DEXPAPRIKA_API_URL |-> Null, DEXPAPRIKA_API_KEY |-> k] :
     k \in {Undefined, Str("test-api-key"), Str("other-api-key")}}

PairCallbacks == {"none", "returns"}

PairBody(op) ==
  CASE op = "getNetworks" -> NetworksBody
    [] op = "getNetworkPools" -> PoolsBody(2)
    [] op = "search" -> SearchBody(MaxResults)

PairSettlements ==
  {[kind |-> "ok", status |-> 200, data |-> PairBody(op)] : op \in PairOps}
  \cup {[kind |-> "http", status |-> 429, data |-> Str("")],
        [kind |-> "transport", message |-> "Network Error"]}

PairClocks == {Clock(1)}

InitPair == calls = [i \in PairIds |-> Idle]

NextPair ==
  \/ \E i \in DOMAIN calls : \E op \in PairOps : \E params \in PairParams(op) :
       \E runtime \in PairRuntimes : ExecuteStart(i, op, params, runtime)
  \/ \E i \in DOMAIN calls : \E settled \in PairSettlements : \E now \in PairClocks :
       ExecuteSettle(i, settled, now)
  \/ \E i \in DOMAIN calls : \E op \in PairOps : \E params \in PairParams(op) :
       \E runtime \in PairRuntimes : ModuleStart(i, op, params, runtime)
  \/ \E i \in DOMAIN calls : \E settled \in PairSettlements : \E now \in PairClocks :
       ModuleSettle(i, settled, now)
  \/ \E i \in DOMAIN calls : \E params \in PairParams("search") :
       \E runtime \in PairRuntimes : FirstCopyStart(i, "search", params, runtime)
  \/ \E i \in DOMAIN calls : \E settled \in PairSettlements : \E now \in PairClocks :
       FirstCopySettle(i, settled, now)
  \/ \E i \in DOMAIN calls : \E params \in PairParams("search") :
       \E runtime \in PairRuntimes : SearchStart(i, params, runtime)
  \/ \E i \in DOMAIN calls : \E settled \in PairSettlements :
       SearchDirectSettled(i, settled)
  \/ \E i \in DOMAIN calls : \E settled \in PairSettlements : \E now \in PairClocks :
       SearchClientSettled(i, settled, now)
  \/ \E i \in DOMAIN calls : \E settled \in PairSettlements :
       SearchFallbackSettled(i, settled)
  \/ \E i \in DOMAIN calls : \E op \in PairOps : \E content \in PairParams(op) :
       \E runtime \in PairRuntimes : \E callback \in PairCallbacks :
         HandlerStart(i, op, content, runtime, callback)
  \/ \E i \in DOMAIN calls : \E ok \in BOOLEAN : HandlerStateSettled(i, ok)
  \/ \E i \in DOMAIN calls : \E content \in PairParams("getNetworks") :
       \E context \in PairRuntimes : \E callback \in PairCallbacks :
         GetNetworksHandlerStart(i, content, context, callback)
  \/ \E i \in DOMAIN calls : \E settled \in PairSettlements : \E now \in PairClocks :
       HandlerSettle(i, settled, now)

SpecPair == InitPair /\ [][NextPair]_vars

\* the frame of an invocation run alone, from its call to its first await
StartedAlone(c) ==
  IF c.impl = "registry" THEN ExecuteStarted(c.op, c.params, c.runtime)
  ELSE IF c.impl = "firstCopy" THEN FirstCopyStarted(c.op, c.params, c.runtime)
  ELSE IF c.impl = "module"
  THEN IF c.op = "search" THEN SearchStarted(c.params, c.runtime)
       ELSE ModuleStarted(c.op, c.params, c.runtime)
  ELSE IF c.op = "getNetworks"
  THEN GetNetworksHandlerStarted(c.params, c.runtime, c.callback)
  ELSE HandlerStarted(c.op, c.params, c.runtime, c.callback)

\* the frame of an invocation run alone after its awaited request settled
ContinuedAlone(c, settled, now) ==
  CASE c.pc = "awaitDirect" -> SearchDirectContinued(c, settled)
    [] c.pc = "awaitFallback" -> SearchFallbackContinued(c, settled)
    [] c.pc = "awaitClient" /\ c.impl = "registry" -> ExecuteSettled(c, settled, now)
    [] c.pc = "awaitClient" /\ c.impl = "handler" -> HandlerSettled(c, settled, now)
    [] c.pc = "awaitClient" /\ c.impl = "firstCopy" -> FirstCopySettled(c, settled, now)
    [] c.pc = "awaitClient" /\ c.impl = "module" /\ c.op = "search" ->
         SearchClientContinued(c, settled, now)
    [] c.pc = "awaitClient" /\ c.impl = "module" /\ c.op # "search" ->
         ModuleSettled(c, settled, now)
    [] OTHER -> c

RECURSIVE SettledAlone(_, _, _)
SettledAlone(c, settlements, now) ==
  IF settlements = <<>> THEN c
  ELSE SettledAlone(ContinuedAlone(c, Head(settlements), now), Tail(settlements), now)

\* the frame the invocation of frame c has when it runs alone with the same
\* parameters, settings, callback and upstream settlements (and, for a
\* handler past its state, the same outcome ok of composing the state), its
\* formatting reading the clock at now
RunAlone(c, ok, now) ==
  LET started == StartedAlone(c)
      running == IF started.pc = "awaitState" /\ c.pc # "awaitState"
                 THEN HandlerStateContinued(started, ok) ELSE started
  IN SettledAlone(running, c.settled, now)

SearchCategories == {"tokens", "pools", "dexes"}

\* the formatted response of a search that ended with an envelope
SearchEnvelope(c) ==
  IF c.impl = "handler" THEN LastCallback(c).content.formatted_response
  ELSE c.outcome.value.v.formatted_response

\* a search ended successfully with an envelope built from an upstream body
SearchFormatted(c) ==
  /\ Succeeded(c) /\ c.op = "search" /\ c.settled # <<>>
  /\ c.settled[Len(c.settled)].kind = "ok" /\ LastBody(c).t = "object"
  /\ IF c.impl = "handler"
     THEN c.callbacks # <<>> /\ Has(LastCallback(c), "content")
          /\ Has(LastCallback(c).content, "formatted_response")
     ELSE HasProp(c.outcome.value, "formatted_response")

\* what identifies an upstream entry of the category, and the same read from
\* the entry as the family shows it (the registry shows the upstream entry)
UpstreamKey(category, entry) ==
  IF category = "dexes" THEN entry.dex_name ELSE entry.id

ShownKey(impl, category, entry) ==
  IF impl = "registry" THEN UpstreamKey(category, entry)
  ELSE IF category = "dexes" THEN entry.name
  ELSE IF impl \in {"module", "firstCopy"} THEN entry.id
  ELSE entry.address

(***************************************************************************)
(* C19: search shows at most the first 3 upstream entries of each category *)
(* (tokens, pools, dexes), while the category's count is the full length   *)
(* of the upstream list, 0 when the list is absent or empty.               *)
(***************************************************************************)
SearchShowsTopThree ==
  \A i \in DOMAIN calls :
    calls[i].pc # "idle" /\ SearchFormatted(calls[i]) =>
      \A category \in SearchCategories :
        LET upstream == ListOf(LastBody(calls[i]).v, category)
            shown == SearchEnvelope(calls[i])[category]
        IN /\ shown.count = Len(upstream)
           /\ Len(shown.top_results) = (IF Len(upstream) < 3 THEN Len(upstream) ELSE 3)
           /\ \A k \in DOMAIN shown.top_results :
                /\ k \in DOMAIN upstream
                /\ ShownKey(calls[i].impl, category, shown.top_results[k])
                   = UpstreamKey(category, upstream[k])

\* YYYY-MM-DD at HH:MM:SS of a moment
LaidOut(now) ==
  padStart(ToString(now.year), 4) \o "-" \o padStart(ToString(now.month), 2) \o "-"
  \o padStart(ToString(now.day), 2) \o " at " \o padStart(ToString(now.hours), 2) \o ":"
  \o padStart(ToString(now.minutes), 2) \o ":" \o padStart(ToString(now.seconds), 2)

\* the timestamp fields of what the invocation handed to its caller
Timestamps(c) ==
  IF c.pc # "done" THEN {}
  ELSE IF c.impl = "handler"
  THEN UNION {(IF Has(c.callbacks[k], "content") /\ Has(c.callbacks[k].content, "timestamp")
               THEN {c.callbacks[k].content.timestamp} ELSE {})
              \cup (IF Has(c.callbacks[k], "content")
                       /\ Has(c.callbacks[k].content, "formatted_response")
                       /\ Has(c.callbacks[k].content.formatted_response, "timestamp")
                    THEN {c.callbacks[k].content.formatted_response.timestamp} ELSE {}) :
              k \in DOMAIN c.callbacks}
  ELSE IF c.outcome.kind = "resolved" /\ HasProp(c.outcome.value, "formatted_response")
  THEN {c.outcome.value.v.formatted_response.timestamp}
  ELSE {}

(***************************************************************************)
(* C20: every timestamp an envelope carries has the layout                 *)
(* YYYY-MM-DD at HH:MM:SS of the moment the call was formatted: the        *)
(* 10-character date, " at ", then hours, minutes and seconds.             *)
(***************************************************************************)
TimestampHasSeconds ==
  \A i \in DOMAIN calls :
    calls[i].pc # "idle" =>
      \A t \in Timestamps(calls[i]) : \E now \in Clocks : t = LaidOut(now)

\* the documented display form of the identifiers the callers pass
DisplayForm(identifier) ==
  CASE identifier = "uniswap_v3" -> "Uniswap V3"
    [] identifier = "ethereum" -> "Ethereum"

\* the texts in which a successful getDexPools shows the dex to its caller
DexShownIn(c) ==
  IF c.impl = "handler" THEN {LastCallback(c).content.dex, LastCallback(c).headerLines[1]}
  ELSE IF c.impl = "registry"
  THEN {c.outcome.value.v.formatted_response.dex, c.outcome.value.v.formatted_response.title}
  ELSE {c.outcome.value.v.formatted_response.title}

\* a getDexPools that ended with a formatted listing
DexPoolsFormatted(c) ==
  /\ Succeeded(c) /\ c.op = "getDexPools"
  /\ IF c.impl = "handler" THEN c.callbacks # <<>>
     ELSE HasProp(c.outcome.value, "formatted_response")

(***************************************************************************)
(* C21: a dex identifier is displayed split on its underscores, each word  *)
(* capitalized and the words joined by spaces ("uniswap_v3" is shown as    *)
(* "Uniswap V3"), while the request path holds the caller's identifier     *)
(* unmodified.                                                             *)
(***************************************************************************)
IdentifiersAreTitleCased ==
  \A i \in DOMAIN calls :
    calls[i].pc # "idle" /\ calls[i].op = "getDexPools" =>
      /\ \A k \in DOMAIN calls[i].requests :
           Includes(calls[i].requests[k].url, "/dexes/" \o calls[i].params.dex \o "/")
      /\ DexPoolsFormatted(calls[i]) =>
           \A text \in DexShownIn(calls[i]) :
             Includes(text, DisplayForm(calls[i].params.dex))

\* tokens[0].symbol + "-" + tokens[1].symbol, "Token1" / "Token2" for a
\* slot that is not there
ExpectedPoolName(pool) ==
  (IF Has(pool, "tokens") /\ Len(pool.tokens) >= 1 THEN pool.tokens[1].symbol ELSE "Token1")
  \o "-"
  \o (IF Has(pool, "tokens") /\ Len(pool.tokens) >= 2 THEN pool.tokens[2].symbol ELSE "Token2")

\* the upstream answered the pool listing with a page of pools
AnsweredPools(c) ==
  /\ c.op \in PoolListingOps /\ c.settled # <<>>
  /\ c.settled[Len(c.settled)].kind = "ok"
  /\ HasProp(LastBody(c), "pools") /\ HasProp(LastBody(c), "page_info")

\* the names under which a successful listing shows its pools: the name
\* field, or the tokens field where the module's formatPoolData has no name
ShownPoolNames(c) ==
  IF c.impl = "handler"
  THEN [k \in DOMAIN LastCallback(c).content.pools |-> LastCallback(c).content.pools[k].name]
  ELSE IF c.impl = "registry"
  THEN [k \in DOMAIN c.outcome.value.v.formatted_response.pools |->
          c.outcome.value.v.formatted_response.pools[k].name]
  ELSE [k \in DOMAIN c.outcome.value.v.formatted_response.pools |->
          c.outcome.value.v.formatted_response.pools[k].tokens]

(***************************************************************************)
(* C22: a listed pool is named tokens[0].symbol + "-" + tokens[1].symbol,  *)
(* with "Token1" for an absent first token and "Token2" for an absent      *)
(* second one, and a page holding pools with fewer than two tokens (or no  *)
(* tokens array) is formatted without throwing.                            *)
(***************************************************************************)
PoolNameIsSymbolPair ==
  \A i \in DOMAIN calls :
    Reports(calls[i]) /\ AnsweredPools(calls[i]) =>
      /\ Succeeded(calls[i])
      /\ \A k \in DOMAIN ShownPoolNames(calls[i]) :
           ShownPoolNames(calls[i])[k] = ExpectedPoolName(LastBody(calls[i]).v.pools[k])

\* the fee a successful getPoolDetails shows for the pool
ShownFee(c) ==
  IF c.impl = "handler" THEN LastCallback(c).content.formatted_response.fee
  ELSE c.outcome.value.v.formatted_response.fee

\* getPoolDetails ended with an envelope for an upstream pool that has a fee
\* field
PoolDetailsFormatted(c) ==
  /\ Succeeded(c) /\ c.op = "getPoolDetails" /\ c.settled # <<>>
  /\ c.settled[Len(c.settled)].kind = "ok" /\ HasProp(LastBody(c), "fee")
  /\ IF c.impl = "handler" THEN c.callbacks # <<>>
     ELSE HasProp(c.outcome.value, "formatted_response")

(***************************************************************************)
(* C23: getPoolDetails shows a null fee as "N/A", never as a percentage,   *)
(* and a numeric fee as the fee times 100 followed by "%" (in one of the   *)
(* precisions the variants use: no fixed digits, two or three decimals).   *)
(***************************************************************************)
NullFeeIsNotAvailable ==
  \A i \in DOMAIN calls :
    calls[i].pc # "idle" /\ PoolDetailsFormatted(calls[i]) =>
      LET fee == LastBody(calls[i]).v.fee
      IN IF fee.t = "null" THEN ShownFee(calls[i]) = "N/A"
         ELSE ShownFee(calls[i]) \in {numberText(fee.v) \o "%", toFixed2(fee.v) \o "%",
                                      toFixed2(fee.v) \o "0%"}

\* the fields under which an implementation shows a pool's 24h volume and its
\* price: in a listing, and in the details of one pool
VolumeField(impl, listed) ==
  CASE impl = "registry" -> "volume_usd"
    [] impl = "handler" -> IF listed THEN "volume" ELSE "volume_usd"
    [] OTHER -> IF listed THEN "volume" ELSE "volume_24h"

PriceField(impl, listed) == IF listed /\ impl = "registry" THEN "price_usd" ELSE "price"

\* the pools a successful invocation rendered, each as the pair (upstream
\* pool, rendered pool)
RenderedPools(c) ==
  IF ~Succeeded(c) \/ c.settled = <<>> THEN {}
  ELSE IF c.impl = "handler"
  THEN IF c.callbacks = <<>> THEN {}
       ELSE IF c.op \in PoolListingOps
       THEN {<<LastBody(c).v.pools[k], LastCallback(c).content.pools[k]>> :
               k \in DOMAIN LastCallback(c).content.pools}
       ELSE IF c.op = "getPoolDetails"
       THEN {<<LastBody(c).v, LastCallback(c).content.formatted_response>>}
       ELSE {}
  ELSE IF c.op \in PoolListingOps /\ HasProp(c.outcome.value, "formatted_response")
  THEN {<<LastBody(c).v.pools[k], c.outcome.value.v.formatted_response.pools[k]>> :
          k \in DOMAIN c.outcome.value.v.formatted_response.pools}
  ELSE IF c.op = "getPoolDetails" /\ HasProp(c.outcome.value, "formatted_response")
  THEN {<<LastBody(c).v, c.outcome.value.v.formatted_response>>}
  ELSE {}

\* the triples (upstream pool, upstream field, rendered USD text) of a
\* successful invocation
UsdRenderings(c) ==
  UNION {{<<r[1], "volume_usd", r[2][VolumeField(c.impl, c.op \in PoolListingOps)]>>,
          <<r[1], "price_usd", r[2][PriceField(c.impl, c.op \in PoolListingOps)]>>} :
           r \in RenderedPools(c)}

(***************************************************************************)
(* C24: a rendered USD field (24h volume, price) reads "N/A" when the      *)
(* upstream pool has no such value, and a dollar amount when it has one;   *)
(* it never reads "$NaN".                                                  *)
(***************************************************************************)
UsdFieldIsNotAvailable ==
  \A i \in DOMAIN calls :
    calls[i].pc # "idle" =>
      \A r \in UsdRenderings(calls[i]) :
        /\ r[3] # "$NaN"
        /\ ~Has(r[1], r[2]) => r[3] = "N/A"
        /\ Has(r[1], r[2]) /\ r[1][r[2]] # 0 => SubSeq(r[3], 1, 1) = "$"

(***************************************************************************)
(* C25: a rendered 24-hour price change of a strictly positive upstream    *)
(* value p reads "+" followed by (p * 100).toFixed(2) and "%"; a negative  *)
(* or zero value is rendered without the "+".                              *)
(***************************************************************************)
PositiveChangeHasPlusSign ==
  \A i \in DOMAIN calls :
    calls[i].pc # "idle" =>
      \A r \in PriceChangeRenderings(calls[i]) :
        Has(r[1], "last_price_change_usd_24h") =>
          IF r[1].last_price_change_usd_24h > 0
          THEN r[2] = "+" \o toFixed2(r[1].last_price_change_usd_24h) \o "%"
          ELSE SubSeq(r[2], 1, 1) # "+"

\* the upstream count of the statistics body, 0 when it has none
UpstreamCount(body, f) == IF Has(body.v, f) THEN body.v[f] ELSE 0

\* the upstream answered getStats with an object
AnsweredStats(c) ==
  /\ c.op = "getStats" /\ c.pc = "done" /\ c.settled # <<>>
  /\ c.settled[Len(c.settled)].kind = "ok"
  /\ LastBody(c).t = "object"

(***************************************************************************)
(* C26: getStats, once its configuration is accepted and its client is    *)
(* built, issues one GET to /stats, and when the upstream answers          *)
(* with a statistics object it resolves with the title "DexPaprika         *)
(* Platform Statistics", with total_networks, total_dexes, total_pools and *)
(* total_tokens equal to the upstream networks_count, dexes_count,         *)
(* pools_count and tokens_count (0 for a missing one), and with the        *)
(* upstream body as raw_data.                                              *)
(***************************************************************************)
StatsAreTakenFromUpstream ==
  \A i \in DOMAIN calls :
    calls[i].pc # "idle" /\ calls[i].op = "getStats" =>
      /\ Len(calls[i].requests) = (IF calls[i].clients = <<>> THEN 0 ELSE 1)
      /\ \A k \in DOMAIN calls[i].requests :
           calls[i].requests[k].method = "GET" /\ calls[i].requests[k].url = "/stats"
      /\ AnsweredStats(calls[i]) =>
           /\ calls[i].outcome.kind = "resolved"
           /\ LET shown == calls[i].outcome.value.v.formatted_response
                  body == LastBody(calls[i])
              IN /\ shown.title = "DexPaprika Platform Statistics"
                 /\ shown.total_networks = UpstreamCount(body, "networks_count")
                 /\ shown.total_dexes = UpstreamCount(body, "dexes_count")
                 /\ shown.total_pools = UpstreamCount(body, "pools_count")
                 /\ shown.total_tokens = UpstreamCount(body, "tokens_count")
           /\ calls[i].outcome.value.v.raw_data = LastBody(calls[i])

\* getStats sent its one request and resolved for the full statistics body
StatsAreTakenFromUpstreamWitness ==
  \E i \in DOMAIN calls :
    /\ calls[i].pc # "idle" /\ AnsweredStats(calls[i])
    /\ Len(calls[i].requests) = 1 /\ LastBody(calls[i]) = StatsBody
    /\ calls[i].outcome.value.v.formatted_response.total_tokens = 5000

\* the callback payload reports a failure: content.error, or content.type
\* "error" in GET_NETWORKS
IsErrorPayload(payload) ==
  \/ Has(payload.content, "error")
  \/ Has(payload.content, "type") /\ payload.content.type = "error"

(***************************************************************************)
(* C27: a schema-validated handler invokes its callback at most once per   *)
(* invocation, on every path, and never with both the success payload and  *)
(* the error payload, also when the callback throws on the success         *)
(* payload.                                                                *)
(***************************************************************************)
CallbackAtMostOnce ==
  \A i \in DOMAIN calls :
    calls[i].pc # "idle" /\ calls[i].impl = "handler" =>
      /\ Len(calls[i].callbacks) <= 1
      /\ ~\E j, k \in DOMAIN calls[i].callbacks :
            ~IsErrorPayload(calls[i].callbacks[j]) /\ IsErrorPayload(calls[i].callbacks[k])

\* the handler got past state composition and has finished
HandlerFinished(c) ==
  /\ c.impl = "handler" /\ c.pc = "done"
  /\ ~(c.outcome.kind = "rejected" /\ c.outcome.error.message = StateErrorMessage)

\* the upstream answered the handler's request with a non-empty body
AnsweredWithBody(c) ==
  /\ c.settled # <<>> /\ c.settled[Len(c.settled)].kind = "ok"
  /\ Truthy(LastBody(c))

(***************************************************************************)
(* C28: a schema-validated handler that got past state composition never   *)
(* rejects; it resolves true only when the upstream answered with a        *)
(* non-empty body, and false for an HTTP error status, a transport         *)
(* failure, an empty body or an exception while formatting; when a         *)
(* callback was supplied, a false result follows the error callback and a  *)
(* true result follows the success callback.                               *)
(***************************************************************************)
HandlerResolvesBoolean ==
  \A i \in DOMAIN calls :
    calls[i].pc # "idle" /\ HandlerFinished(calls[i]) =>
      /\ calls[i].outcome.kind = "resolved"
      /\ calls[i].outcome.value \in {Bool(TRUE), Bool(FALSE)}
      /\ calls[i].outcome.value = Bool(TRUE) => AnsweredWithBody(calls[i])
      /\ ~AnsweredWithBody(calls[i]) => calls[i].outcome.value = Bool(FALSE)
      /\ calls[i].callback # "none" =>
           /\ calls[i].callbacks # <<>>
           /\ calls[i].outcome.value = Bool(FALSE) => IsErrorPayload(LastCallback(calls[i]))
           /\ calls[i].outcome.value = Bool(TRUE) => ~IsErrorPayload(LastCallback(calls[i]))

(***************************************************************************)
(* C29: in search, validation comes first: an invocation whose query is    *)
(* empty, blank or shorter than three characters after trimming never      *)
(* reads a setting, never creates a client and never issues a request; a   *)
(* search that has read a setting or holds a client has a query that       *)
(* passed both checks.                                                     *)
(***************************************************************************)
ValidationPrecedesConfiguration ==
  \A i \in DOMAIN calls :
    calls[i].pc # "idle" /\ calls[i].op = "search" =>
      /\ RejectedQuery(calls[i].params) =>
           /\ calls[i].getSettingCalls = 0
           /\ calls[i].clients = <<>>
           /\ calls[i].requests = <<>>
      /\ calls[i].getSettingCalls > 0 \/ calls[i].clients # <<>> =>
           search_validate(calls[i].params).ok

\* the Authorization header the runtime's key makes
OwnAuthorization(c) == "Bearer " \o c.runtime.DEXPAPRIKA_API_KEY.v

(***************************************************************************)
(* C30: with two invocations in any interleaving, a request that carries   *)
(* an Authorization header carries the key of its own invocation's         *)
(* runtime, a request sent through the client of a runtime without a key   *)
(* carries none, no request carries the key of the other invocation, and   *)
(* every client an invocation built holds at most one interceptor.         *)
(***************************************************************************)
AuthorizationIsOwnKey ==
  \A i \in DOMAIN calls :
    calls[i].pc # "idle" =>
      /\ \A k \in DOMAIN calls[i].requests :
           LET headers == calls[i].requests[k].headers
           IN /\ Has(headers, "Authorization") =>
                   KeyConfigured(calls[i].runtime)
                   /\ headers.Authorization = OwnAuthorization(calls[i])
              /\ calls[i].requests[k].via = "client" /\ KeyConfigured(calls[i].runtime) =>
                   Has(headers, "Authorization")
              /\ \A j \in DOMAIN calls \ {i} :
                   (/\ calls[j].pc # "idle" /\ KeyConfigured(calls[j].runtime)
                    /\ calls[j].runtime # calls[i].runtime
                    /\ Has(headers, "Authorization"))
                   => headers.Authorization # OwnAuthorization(calls[j])
      /\ \A n \in DOMAIN calls[i].clients : Len(calls[i].clients[n].interceptors) <= 1

\* two invocations with different keys (and, in another state, one with a
\* key and one without) have both sent a request through their clients
AuthorizationIsOwnKeyWitness ==
  /\ \A i \in DOMAIN calls : calls[i].pc # "idle" /\ calls[i].requests # <<>>
  /\ KeyConfigured(calls[1].runtime) /\ KeyConfigured(calls[2].runtime)
  /\ calls[1].runtime # calls[2].runtime
  /\ \A i \in DOMAIN calls :
       \E k \in DOMAIN calls[i].requests :
         /\ Has(calls[i].requests[k].headers, "Authorization")
         /\ calls[i].requests[k].headers.Authorization = OwnAuthorization(calls[i])
====
